---- MODULE Spec2Model ----
(***************************************************************************)
(* VersaBlog backend: the category hierarchy (models/Category.js and the   *)
(* category mutations of graphql/resolvers.js), post slugs (models/Post.js *)
(* and the post mutations) as state machines over a document store.        *)
(*                                                                         *)
(* Documents are records; a collection is a function from the ids of the   *)
(* stored documents to the documents.  Ids are naturals handed out in      *)
(* order (an ObjectId is fresh and opaque); 0 is null.  Strings that are   *)
(* only compared (category names and slugs) are natural-number tokens;     *)
(* strings that are transformed (post titles and slugs) are sequences of   *)
(* one-character strings.                                                  *)
(***************************************************************************)
EXTENDS Integers, Sequences, FiniteSets, TLC

VARIABLES
  cats,      \* Category collection: id -> [name, slug, parent, isActive]
  nextCat,   \* the next fresh category id
  last,      \* the request that completed last and how it ended
  posts,     \* Post collection: id -> [title, slug, status, published, version,
             \*   categories, v]; published: publishedAt is a date; v: __v
  nextPost,  \* the next fresh post id
  strictQuery, \* the driver strips filter fields the schema lacks (build-dependent)
  proc,      \* overlapping updateCategory requests: where each one stands
  racedWrite, \* some request wrote a parent it had validated before another's write
  pst,       \* overlapping post requests: where each one stands
  text,      \* a title as PostSchema holds it when the pre-save hook runs
  derived,   \* the slug the pre-save hook derived from text, once it has run
  loader,    \* the categories loader of one request
  tags,      \* the ids of the stored tags
  listing,   \* the last listing of posts: its arguments and what it returned
  db         \* the DatabaseManager instance, its timers and its connect() calls

catVars == <<cats, nextCat, last>>
postVars == <<posts, nextPost, strictQuery, pst>>
raceVars == <<proc, racedWrite>>
slugVars == <<text, derived>>
vars == <<cats, nextCat, last, posts, nextPost, strictQuery, pst, proc,
          racedWrite, text, derived, loader, tags, listing, db>>
\* What the atomic category requests leave alone.
notCatVars == <<postVars, raceVars, slugVars, loader, tags, listing, db>>

----------------------------------------------------------------------------
(* Bounds and program constants *)

\* Categories ever created in the small, unrestricted hierarchy model.
MaxCats == 3

\* Posts ever created.
MaxPosts == 2

\* The version up to which posts are updated.
MaxVersion == 2

\* The view count up to which posts are viewed.
MaxViews == 2

\* Categories ever created in the model of posts and their categories.
MaxBlogCats == 2
\* Categories of the loader specification.
MaxLoaderCats == 1
\* Key objects one request hands to its loader, and load calls of one phase.
MaxLoads == 2
\* Requests served one after the other, each with loaders of its own.
MaxRequests == 2
\* Categories and tags of the stores the batch functions are applied to, and
\* keys of one batch.
MaxBatchCats == 2
MaxBatchKeys == 2
\* Instants at which the posts of the filter specification were published.
MaxTime == 2
\* Posts of the stores the post counts are taken over.
MaxCountPosts == 2
\* connect() calls of one process, health checks awaiting their ping at once,
\* and disconnect() calls awaiting the close at once.
MaxCalls == 3
MaxPings == 1
MaxClosing == 1
\* Posts of the stores that are listed page by page, and the largest small
\* page and limit argument.
MaxPagePosts == 2
MaxPageArg == 2
\* Categories of the stores the ancestor walk is run over.
MaxWalkCats == 3

\* Categories ever created in the model of post status and version.
MaxStatusCats == 1

\* Length of the titles the slug derivation is run on.
MaxLen == 4

\* Categories ever created in the model of overlapping requests.
MaxRaceCats == 2

\* Categories ever created in the model of names and slugs.
MaxNameCats == 3

\* Categories ever created in the deep-chain hierarchy model.
MaxDeepCats == 12

\* Roots the deep-chain model creates.
MaxDeepRoots == 2

\* The hop limit of the validator's ancestor walk (`depth < 10`).
MaxDepth == 10

Null == 0
\* An update object without the field.
Absent == -1
\* An id no document ever has (never created, or long deleted).
NoSuchId == 99

\* The requests that may overlap.
Procs == {1, 2}

\* The untrimmed or upper-case spelling of the name or slug t is t + Padded.
Padded == 100
\* maxLimit of paginate.
MaxLimit == 100
\* The default page and limit of a listing.
DefaultPage == 1
DefaultLimit == 10
\* The longest search text answered by regular expression.
RegexLen == 2
\* DatabaseManager: this.maxRetries.
maxRetries == 5

NoRequest ==
  [op |-> "none", id |-> Null, name |-> Absent, slug |-> Absent,
   parent |-> Absent, outcome |-> "none", count |-> 0]

----------------------------------------------------------------------------
(* Strings: sequences over an alphabet that has one character of every
   class the slug code tells apart *)

LowerLetters == {"h", "w"}
UpperLetters == {"W"}
Digits == {"1"}
Whitespace == {" "}
Hyphen == "-"
\* Any character that is none of the above.
Others == {"!"}

Alphabet == LowerLetters \cup UpperLetters \cup Digits \cup Whitespace
              \cup {Hyphen} \cup Others

RECURSIVE StringsUpTo(_)
StringsUpTo(n) ==
  IF n = 0 THEN {<<>>}
  ELSE LET shorter == StringsUpTo(n - 1)
       IN shorter \cup {Append(t, c) : t \in {u \in shorter : Len(u) = n - 1}, c \in Alphabet}

\* String.prototype.toLowerCase
LowerChar(c) == IF c = "W" THEN "w" ELSE c
ToLowerCase(t) == [i \in 1..Len(t) |-> LowerChar(t[i])]

\* String.prototype.trim
RECURSIVE TrimStart(_)
TrimStart(t) ==
  IF t # <<>> /\ Head(t) \in Whitespace THEN TrimStart(Tail(t)) ELSE t

RECURSIVE TrimEnd(_)
TrimEnd(t) ==
  IF t # <<>> /\ t[Len(t)] \in Whitespace
  THEN TrimEnd(SubSeq(t, 1, Len(t) - 1))
  ELSE t

Trim(t) == TrimEnd(TrimStart(t))

\* .replace(/[^a-z0-9\s-]/g, '')
KeptBySlug(c) == c \in LowerLetters \cup Digits \cup Whitespace \cup {Hyphen}
StripSpecial(t) == SelectSeq(t, KeptBySlug)

\* t without its leading characters of the set.
RECURSIVE DropRun(_, _)
DropRun(t, set) ==
  IF t # <<>> /\ Head(t) \in set THEN DropRun(Tail(t), set) ELSE t

\* .replace(/<set>+/g, '-'): every maximal run of characters of the set
\* becomes one hyphen.
RECURSIVE ReplaceRuns(_, _)
ReplaceRuns(t, set) ==
  IF t = <<>> THEN <<>>
  ELSE IF Head(t) \in set THEN <<Hyphen>> \o ReplaceRuns(DropRun(t, set), set)
  ELSE <<Head(t)>> \o ReplaceRuns(Tail(t), set)

\* The slug of the pre-save hook: title.toLowerCase().replace(...)
\* .replace(/\s+/g, '-').replace(/-+/g, '-').trim()
DeriveSlug(title) ==
  Trim(ReplaceRuns(ReplaceRuns(StripSpecial(ToLowerCase(title)), Whitespace), {Hyphen}))

\* The setters of a schema string with trim: true, lowercase: true.
StringSetter(t) == Trim(ToLowerCase(t))

\* match: /^[a-z0-9-]+$/
MatchesSlugPattern(t) ==
  t # <<>> /\ \A i \in 1..Len(t) : t[i] \in LowerLetters \cup Digits \cup {Hyphen}

----------------------------------------------------------------------------
(* Storage primitives *)

\* Model.findById(id) !== null
Stored(store, id) == id \in DOMAIN store

\* The setters of CategorySchema.name (trim) and CategorySchema.slug
\* (lowercase, trim): every spelling is stored as its clean one.
CategorySetter(t) == IF t >= Padded THEN t - Padded ELSE t

\* A conflict query that compares names only.
ActiveConflictNameOnly(store, name, slug, exceptId) ==
  \E c \in DOMAIN store :
    c # exceptId /\ store[c].isActive /\ name # Absent /\ store[c].name = name

\* Category.findOne({ $or: [{name}, {slug}], _id: {$ne: exceptId}, isActive: true })
\* with an absent name or slug contributing no disjunct.
ActiveConflict(store, name, slug, exceptId) ==
  \E c \in DOMAIN store :
    /\ c # exceptId
    /\ store[c].isActive
    /\ \/ (name # Absent /\ store[c].name = name)
       \/ (slug # Absent /\ store[c].slug = slug)

\* The unique indexes on name and on slug: would writing (name, slug) on
\* document id collide with another stored document?
DuplicateKey(store, id, name, slug) ==
  \E c \in DOMAIN store :
    c # id /\ (store[c].name = name \/ store[c].slug = slug)

----------------------------------------------------------------------------
(* The parent validator of CategorySchema *)

\* The walk with its hop limit one short.
RECURSIVE ParentWalkShort(_, _, _, _)
ParentWalkShort(store, self, cur, depth) ==
  IF store[cur].parent = Null \/ depth >= MaxDepth - 1 THEN "accept"
  ELSE IF store[cur].parent = self THEN "invalid"
  ELSE IF ~Stored(store, store[cur].parent) THEN "throw"
  ELSE ParentWalkShort(store, self, store[cur].parent, depth + 1)

\* The while loop of the validator: currentParent is the stored document
\* cur, depth the hops made.  A findById that finds nothing leaves
\* currentParent null and the next test of the loop condition throws.
RECURSIVE ParentWalk(_, _, _, _)
ParentWalk(store, self, cur, depth) ==
  IF store[cur].parent = Null \/ depth >= MaxDepth THEN "accept"
  ELSE IF store[cur].parent = self THEN "invalid"
  ELSE IF ~Stored(store, store[cur].parent) THEN "throw"
  ELSE ParentWalk(store, self, store[cur].parent, depth + 1)

\* A validator that only checks that the parent exists.
ParentValidateExistsOnly(store, self, v) ==
  IF v = Null THEN "accept"
  ELSE IF v = self THEN "invalid"
  ELSE IF ~Stored(store, v) THEN "invalid"
  ELSE "accept"

\* validator(v) with this._id = self: "accept" (true), "invalid" (false) or
\* "throw" (the TypeError of reading .parent of null).
ParentValidate(store, self, v) ==
  IF v = Null THEN "accept"
  ELSE IF v = self THEN "invalid"
  ELSE IF ~Stored(store, v) THEN "invalid"
  ELSE ParentWalk(store, self, v, 0)

\* What a failed validation surfaces as: the validator has one message for
\* every `false`; a throw surfaces the thrown error.
ValidationOutcome(verdict) ==
  IF verdict = "invalid" THEN "InvalidParentOrCircular" ELSE "TypeError"

----------------------------------------------------------------------------
(* Mutations on categories, each executed as one atomic request *)

\* Mutation.createCategory
CreateCategory(name, slug, parentId) ==
  LET id == nextCat
      parent == parentId  \* parentId || null: Null is the only falsy id
      made == [name |-> CategorySetter(name), slug |-> CategorySetter(slug),
               parent |-> parent, isActive |-> TRUE]
      verdict == ParentValidate(cats, id, parent)
      req == [op |-> "createCategory", id |-> id, name |-> name, slug |-> slug,
              parent |-> parent, outcome |-> "ok", count |-> 0]
  IN
  IF ActiveConflict(cats, name, slug, Null) THEN
    /\ last' = [req EXCEPT !.outcome = "ConflictError"]
    /\ UNCHANGED <<cats, nextCat>>
  ELSE IF verdict # "accept" THEN
    /\ last' = [req EXCEPT !.outcome = ValidationOutcome(verdict)]
    /\ UNCHANGED <<cats, nextCat>>
  ELSE IF DuplicateKey(cats, id, made.name, made.slug) THEN
    /\ last' = [req EXCEPT !.outcome = "DuplicateKey"]
    /\ UNCHANGED <<cats, nextCat>>
  ELSE
    /\ cats' = cats @@ (id :> made)
    /\ nextCat' = nextCat + 1
    /\ last' = req

\* Object.assign(category, updates): the document after the assignment.
Assign(doc, u) ==
  [name     |-> IF u.name = Absent THEN doc.name ELSE CategorySetter(u.name),
   slug     |-> IF u.slug = Absent THEN doc.slug ELSE CategorySetter(u.slug),
   parent   |-> IF u.parent = Absent THEN doc.parent ELSE u.parent,
   isActive |-> IF u.isActive = "absent" THEN doc.isActive ELSE (u.isActive = "true")]

\* An update that writes the assigned document without validating it.
UpdateCategoryUnvalidated(id, u) ==
  LET req == [op |-> "updateCategory", id |-> id, name |-> u.name, slug |-> u.slug,
              parent |-> u.parent, outcome |-> "ok", count |-> 0]
  IN
  IF ~(Stored(cats, id) /\ cats[id].isActive) THEN
    /\ last' = [req EXCEPT !.outcome = "NotFoundError"]
    /\ UNCHANGED <<cats, nextCat>>
  ELSE
    /\ cats' = [cats EXCEPT ![id] = Assign(cats[id], u)]
    /\ last' = req
    /\ UNCHANGED nextCat

\* Mutation.updateCategory.  save() validates the document (the paths it
\* was loaded with and the assigned ones) and writes the modified paths.
UpdateCategory(id, u) ==
  LET req == [op |-> "updateCategory", id |-> id, name |-> u.name, slug |-> u.slug,
              parent |-> u.parent, outcome |-> "ok", count |-> 0]
  IN
  IF ~(Stored(cats, id) /\ cats[id].isActive) THEN
    /\ last' = [req EXCEPT !.outcome = "NotFoundError"]
    /\ UNCHANGED <<cats, nextCat>>
  ELSE
    LET doc == Assign(cats[id], u)
        verdict == ParentValidate(cats, id, doc.parent)
    IN
    IF (u.name # Absent \/ u.slug # Absent) /\ ActiveConflict(cats, u.name, u.slug, id) THEN
      /\ last' = [req EXCEPT !.outcome = "ConflictError"]
      /\ UNCHANGED <<cats, nextCat>>
    ELSE IF verdict # "accept" THEN
      /\ last' = [req EXCEPT !.outcome = ValidationOutcome(verdict)]
      /\ UNCHANGED <<cats, nextCat>>
    ELSE IF DuplicateKey(cats, id, doc.name, doc.slug) THEN
      /\ last' = [req EXCEPT !.outcome = "DuplicateKey"]
      /\ UNCHANGED <<cats, nextCat>>
    ELSE
      /\ cats' = [cats EXCEPT ![id] = doc]
      /\ last' = req
      /\ UNCHANGED nextCat

\* Post.countDocuments({ categories: id, isDeleted: false }).  PostSchema has
\* no isDeleted path: a driver that strips unknown filter fields counts the
\* posts of the category, one that passes the filter on matches no document.
PostsUsing(id) ==
  IF strictQuery
  THEN Cardinality({p \in DOMAIN posts :
                      \E k \in 1..Len(posts[p].categories) : posts[p].categories[k] = id})
  ELSE 0

\* this.countDocuments({ parent: id })
SubcategoryCount(store, id) ==
  Cardinality({c \in DOMAIN store : store[c].parent = id})

\* Mutation.deleteCategory -> Category.safeDelete(id); count is the number
\* the error message gives.
DeleteCategory(id) ==
  LET req == [op |-> "deleteCategory", id |-> id, name |-> Absent, slug |-> Absent,
              parent |-> Absent, outcome |-> "ok", count |-> 0]
  IN
  IF PostsUsing(id) > 0 THEN
    /\ last' = [req EXCEPT !.outcome = "HasPosts", !.count = PostsUsing(id)]
    /\ UNCHANGED <<cats, nextCat>>
  ELSE IF SubcategoryCount(cats, id) > 0 THEN
    /\ last' = [req EXCEPT !.outcome = "HasSubcategories",
                           !.count = SubcategoryCount(cats, id)]
    /\ UNCHANGED <<cats, nextCat>>
  ELSE
    /\ cats' = [c \in DOMAIN cats \ {id} |-> cats[c]]
    /\ last' = req
    /\ UNCHANGED nextCat

----------------------------------------------------------------------------
(* The hierarchy under atomic requests: every input, a small store *)

EmptyStore == [c \in {} |-> Null]

\* An update object that carries only the given parent.
ParentUpdate(parent) ==
  [name |-> Absent, slug |-> Absent, parent |-> parent, isActive |-> "absent"]

\* An update object that carries only the given isActive.
ActiveUpdate(flag) ==
  [name |-> Absent, slug |-> Absent, parent |-> Absent, isActive |-> flag]

CatInit ==
  /\ cats = EmptyStore
  /\ nextCat = 1
  /\ last = NoRequest

NoPost ==
  [title |-> <<>>, slug |-> <<>>, status |-> "draft", published |-> FALSE,
   version |-> 1, categories |-> <<>>, viewCount |-> 0, v |-> 0]

\* A worker between requests; op, id, hasSlug, list (the categories
\* argument) and outcome tell of the request it completed last.
IdlePost ==
  [pc |-> "idle", op |-> "none", id |-> Null, orig |-> NoPost, doc |-> NoPost,
   hasSlug |-> FALSE, list |-> <<>>, checkCats |-> FALSE, overlapped |-> FALSE,
   outcome |-> "none"]

PostsIdle ==
  /\ posts = EmptyStore
  /\ nextPost = 1
  /\ strictQuery = TRUE
  /\ pst = [p \in Procs |-> IdlePost]

IdleProc ==
  [pc |-> "idle", op |-> "none", id |-> Null, parent |-> Absent, cur |-> Null,
   depth |-> 0, dirty |-> FALSE, clean |-> FALSE, outcome |-> "none"]

RaceIdle ==
  /\ proc = [p \in Procs |-> IdleProc]
  /\ racedWrite = FALSE

SlugIdle ==
  /\ text = <<>>
  /\ derived = [done |-> FALSE, slug |-> <<>>]

\* createLoaders(): a loader with an empty cache and no batch.  objs are
\* the key objects made so far (objs[r] is the id that object r holds),
\* cache the objects the cache map has as keys, batch the keys of the
\* batch that is not dispatched yet, asked the objects load was called with
\* since the last dispatch, fetched the key list of the last fetch and
\* values what that fetch answered, key by key; got holds the value of every
\* cached object whose fetch is done; request numbers the request the
\* loader was made for.
NewLoader ==
  [name |-> "categories", request |-> 1, objs |-> <<>>, cache |-> {},
   batch |-> <<>>, asked |-> <<>>, fetches |-> 0, fetched |-> <<>>,
   values |-> <<>>, got |-> [r \in {} |-> Null]]

LoaderIdle == loader = NewLoader

\* No tag is stored.
TagsIdle == tags = {}

\* No listing of posts was asked for.
NoListing == [op |-> "none"]

ListingIdle == listing = NoListing

\* new DatabaseManager(): not connected, no attempt made, no timer; calls are
\* the connect() calls made so far, pings the health checks awaiting their
\* ping, closing the disconnect() calls awaiting the close.
NewDb ==
  [isConnected |-> FALSE, connectionAttempts |-> 0,
   healthCheckInterval |-> Null, timers |-> {}, nextTimer |-> 1,
   calls |-> <<>>, pings |-> 0, closing |-> 0,
   production |-> FALSE, exited |-> FALSE]

DbIdle == db = NewDb

Init == CatInit /\ PostsIdle /\ RaceIdle /\ SlugIdle /\ LoaderIdle /\ ListingIdle /\ DbIdle /\ TagsIdle

\* A new category under a name and slug no category has had.
CreateFresh(bound) ==
  /\ nextCat <= bound
  /\ \E parentId \in {Null, NoSuchId} \cup DOMAIN cats :
       CreateCategory(nextCat, nextCat, parentId)
  /\ UNCHANGED notCatVars

Reparent ==
  /\ \E id \in DOMAIN cats \cup {NoSuchId} :
     \E parent \in {Null, NoSuchId} \cup DOMAIN cats :
       UpdateCategory(id, ParentUpdate(parent))
  /\ UNCHANGED notCatVars

SetActive ==
  /\ \E id \in DOMAIN cats : \E flag \in {"true", "false"} :
       UpdateCategory(id, ActiveUpdate(flag))
  /\ UNCHANGED notCatVars

Delete ==
  /\ \E id \in DOMAIN cats \cup {NoSuchId} : DeleteCategory(id)
  /\ UNCHANGED notCatVars

Next ==
  \/ CreateFresh(MaxCats)
  \/ Reparent
  \/ SetActive
  \/ Delete

Spec == Init /\ [][Next]_vars

----------------------------------------------------------------------------
(* The hierarchy under atomic requests: long chains.  Categories are created
   as roots or under the category created last, the category created first
   is the one that is moved. *)

Roots(store) == {c \in DOMAIN store : store[c].parent = Null}

DeepCreate ==
  /\ nextCat <= MaxDeepCats
  /\ \E parentId \in {Null} \cup ({nextCat - 1} \cap DOMAIN cats) :
       /\ parentId = Null => Cardinality(Roots(cats)) < MaxDeepRoots
       /\ CreateCategory(nextCat, nextCat, parentId)
  /\ UNCHANGED notCatVars

DeepReparent ==
  /\ Stored(cats, 1)
  /\ \E parent \in {Null} \cup DOMAIN cats :
       UpdateCategory(1, ParentUpdate(parent))
  /\ UNCHANGED notCatVars

DeepNext ==
  \/ DeepCreate
  \/ DeepReparent

SpecDeep == Init /\ [][DeepNext]_vars

----------------------------------------------------------------------------
(* Names and slugs of categories under atomic requests: clients choose among
   two names, one of them also in an untrimmed spelling. *)

NameInputs == {1, 2, 1 + Padded}

\* An update object that carries the given name and slug.
NameUpdate(name, slug) ==
  [name |-> name, slug |-> slug, parent |-> Absent, isActive |-> "absent"]

NamesCreate ==
  /\ nextCat <= MaxNameCats
  /\ \E name \in NameInputs : \E slug \in NameInputs :
       CreateCategory(name, slug, Null)
  /\ UNCHANGED notCatVars

NamesRename ==
  /\ \E id \in DOMAIN cats :
     \E name \in NameInputs \cup {Absent} : \E slug \in NameInputs \cup {Absent} :
       /\ name # Absent \/ slug # Absent
       /\ UpdateCategory(id, NameUpdate(name, slug))
  /\ UNCHANGED notCatVars

NamesNext ==
  \/ NamesCreate
  \/ NamesRename
  \/ SetActive
  \/ Delete

SpecNames == Init /\ [][NamesNext]_vars

----------------------------------------------------------------------------
(* Overlapping updateCategory requests.  A request is a chain of awaited
   storage calls; between two of them other requests run.  The documents a
   request has fetched are its own copies. *)

Finish(p, outcome) ==
  proc' = [proc EXCEPT ![p].pc = "done", ![p].outcome = outcome]

\* Category.findOne({ _id: id, isActive: true }), Object.assign, and save()
\* up to the validator's first storage call.
RaceFind(p, id, parent) ==
  /\ proc[p].pc = "idle"
  /\ LET req == [IdleProc EXCEPT !.op = "updateCategory", !.id = id, !.parent = parent]
     IN
     IF ~(Stored(cats, id) /\ cats[id].isActive) THEN
       proc' = [proc EXCEPT ![p] = [req EXCEPT !.pc = "done", !.outcome = "NotFoundError"]]
     ELSE IF parent = cats[id].parent THEN
       \* nothing modified: nothing to validate or write
       proc' = [proc EXCEPT ![p] = [req EXCEPT !.pc = "done", !.outcome = "ok"]]
     ELSE IF parent = Null THEN
       proc' = [proc EXCEPT ![p] = [req EXCEPT !.pc = "write", !.clean = TRUE]]
     ELSE IF parent = id THEN
       proc' = [proc EXCEPT ![p] = [req EXCEPT !.pc = "done", !.outcome = "InvalidParentOrCircular"]]
     ELSE
       proc' = [proc EXCEPT ![p] = [req EXCEPT !.pc = "find"]]
  /\ UNCHANGED <<catVars, postVars, racedWrite, slugVars, loader, tags, listing, db>>

\* const parent = await this.constructor.findById(v)
RaceFindParent(p) ==
  /\ proc[p].pc = "find"
  /\ IF ~Stored(cats, proc[p].parent)
     THEN Finish(p, "InvalidParentOrCircular")
     ELSE proc' = [proc EXCEPT ![p].pc = "walk",
                               ![p].cur = cats[proc[p].parent].parent,
                               ![p].depth = 0]
  /\ UNCHANGED <<catVars, postVars, racedWrite, slugVars, loader, tags, listing, db>>

\* A walk that fetches the next ancestor without comparing it to the target.
RaceWalkNoCheck(p) ==
  /\ proc[p].pc = "walk"
  /\ IF proc[p].cur = Null \/ proc[p].depth >= MaxDepth THEN
       proc' = [proc EXCEPT ![p].pc = "write", ![p].clean = ~proc[p].dirty]
     ELSE IF ~Stored(cats, proc[p].cur) THEN
       Finish(p, "TypeError")
     ELSE
       proc' = [proc EXCEPT ![p].cur = cats[proc[p].cur].parent,
                            ![p].depth = proc[p].depth + 1]
  /\ UNCHANGED <<catVars, postVars, racedWrite, slugVars, loader, tags, listing, db>>

\* One turn of the validator's loop on the copy fetched last (cur is its
\* parent field): the loop test, the comparison with the target, and
\* currentParent = await findById(currentParent.parent).
RaceWalk(p) ==
  /\ proc[p].pc = "walk"
  /\ IF proc[p].cur = Null \/ proc[p].depth >= MaxDepth THEN
       proc' = [proc EXCEPT ![p].pc = "write", ![p].clean = ~proc[p].dirty]
     ELSE IF proc[p].cur = proc[p].id THEN
       Finish(p, "InvalidParentOrCircular")
     ELSE IF ~Stored(cats, proc[p].cur) THEN
       Finish(p, "TypeError")
     ELSE
       proc' = [proc EXCEPT ![p].cur = cats[proc[p].cur].parent,
                            ![p].depth = proc[p].depth + 1]
  /\ UNCHANGED <<catVars, postVars, racedWrite, slugVars, loader, tags, listing, db>>

\* Request p has written: it is done, and the requests in flight have
\* seen a write since they began.
Written(p) ==
  [q \in Procs |->
     IF q = p THEN [proc[p] EXCEPT !.pc = "done", !.outcome = "ok"]
     ELSE IF proc[q].pc \in {"find", "walk", "write", "count", "remove"}
          THEN [proc[q] EXCEPT !.dirty = TRUE]
          ELSE proc[q]]

\* save() of updateCategory writes the modified path:
\* updateOne({ _id }, { $set: { parent } }).
RaceWrite(p) ==
  /\ proc[p].pc = "write" /\ proc[p].op = "updateCategory"
  /\ cats' = [cats EXCEPT ![proc[p].id].parent = proc[p].parent]
  /\ proc' = Written(p)
  /\ racedWrite' = (racedWrite \/ proc[p].dirty)
  /\ UNCHANGED <<nextCat, last, postVars, slugVars, loader, tags, listing, db>>

\* The resolver returns (or rethrows); the worker takes the next request.
RaceReturn(p) ==
  /\ proc[p].pc = "done"
  /\ proc' = [proc EXCEPT ![p] = IdleProc]
  /\ UNCHANGED <<catVars, postVars, racedWrite, slugVars, loader, tags, listing, db>>

\* createCategory requests do not overlap with others in this model.
RaceCreate ==
  /\ nextCat <= MaxRaceCats
  /\ \E parentId \in {Null} \cup DOMAIN cats :
       CreateCategory(nextCat, nextCat, parentId)
  /\ UNCHANGED notCatVars

RaceRequest ==
  \E p \in Procs : \E id \in DOMAIN cats : \E parent \in {Null} \cup DOMAIN cats :
    RaceFind(p, id, parent)

RaceFetch == \E p \in Procs : RaceFindParent(p)

RaceStep == \E p \in Procs : RaceWalk(p)

RaceSave == \E p \in Procs : RaceWrite(p)

RaceDone == \E p \in Procs : RaceReturn(p)

RaceNext ==
  \/ RaceCreate
  \/ RaceRequest
  \/ RaceFetch
  \/ RaceStep
  \/ RaceSave
  \/ RaceDone

SpecRace == Init /\ [][RaceNext]_vars

----------------------------------------------------------------------------
(* The ancestor walk of one updateCategory over any store overlapping
   requests can leave behind: parents that form a cycle, parents that are
   not stored. *)

WalkStores ==
  {store \in [1..MaxWalkCats ->
               [name : {0}, slug : {0}, isActive : {TRUE},
                parent : {Null, NoSuchId} \cup (1..MaxWalkCats)]] :
     \A c \in 1..MaxWalkCats : store[c].parent # c}

WalkInit ==
  /\ \E store \in WalkStores :
       cats = [c \in 1..MaxWalkCats |->
                 [store[c] EXCEPT !.name = c, !.slug = c]]
  /\ nextCat = MaxWalkCats + 1
  /\ last = NoRequest
  /\ PostsIdle /\ RaceIdle /\ SlugIdle /\ LoaderIdle /\ ListingIdle /\ DbIdle /\ TagsIdle

WalkRequest ==
  \E id \in DOMAIN cats : \E parent \in {Null, NoSuchId} \cup DOMAIN cats :
    RaceFind(1, id, parent)

WalkFetch == RaceFindParent(1)

\* A walk whose loop counts no hops.
WalkStepNoCount ==
  /\ proc[1].pc = "walk"
  /\ IF proc[1].cur = Null THEN
       proc' = [proc EXCEPT ![1].pc = "write", ![1].clean = ~proc[1].dirty]
     ELSE IF proc[1].cur = proc[1].id THEN
       Finish(1, "InvalidParentOrCircular")
     ELSE IF ~Stored(cats, proc[1].cur) THEN
       Finish(1, "TypeError")
     ELSE
       proc' = [proc EXCEPT ![1].cur = cats[proc[1].cur].parent]
  /\ UNCHANGED <<catVars, postVars, racedWrite, slugVars, loader, tags, listing, db>>

WalkStep == RaceWalk(1)

WalkSave == RaceWrite(1)

WalkNext ==
  \/ WalkRequest
  \/ WalkFetch
  \/ WalkStep
  \/ WalkSave

SpecWalk == WalkInit /\ [][WalkNext]_vars

\* The request is resumed whenever the storage call it awaits has answered.
SpecWalkLive == SpecWalk /\ WF_vars(WalkFetch) /\ WF_vars(WalkStep)

----------------------------------------------------------------------------
(* Overlapping createCategory and deleteCategory requests.  Names and slugs
   are fresh, so the conflict query of createCategory finds nothing; no post
   is stored. *)

\* Mutation.createCategory up to the validator's first storage call.  The
\* _id of the new document is fresh: no stored parent field equals it.
RaceNew(p, parentId) ==
  /\ proc[p].pc = "idle"
  /\ nextCat <= MaxRaceCats
  /\ LET req == [IdleProc EXCEPT !.op = "createCategory", !.parent = parentId]
     IN
     IF parentId = Null
     THEN proc' = [proc EXCEPT ![p] = [req EXCEPT !.pc = "write", !.clean = TRUE]]
     ELSE proc' = [proc EXCEPT ![p] = [req EXCEPT !.pc = "find"]]
  /\ UNCHANGED <<catVars, postVars, racedWrite, slugVars, loader, tags, listing, db>>

\* save() of createCategory inserts the document.
RaceInsert(p) ==
  /\ proc[p].pc = "write" /\ proc[p].op = "createCategory"
  /\ cats' = cats @@ (nextCat :> [name |-> nextCat, slug |-> nextCat,
                                    parent |-> proc[p].parent, isActive |-> TRUE])
  /\ nextCat' = nextCat + 1
  /\ proc' = [Written(p) EXCEPT ![p].id = nextCat]
  /\ racedWrite' = (racedWrite \/ proc[p].dirty)
  /\ UNCHANGED <<last, postVars, slugVars, loader, tags, listing, db>>

\* Category.safeDelete(id) up to its second count: the count of the posts.
RaceDelete(p, id) ==
  /\ proc[p].pc = "idle"
  /\ LET req == [IdleProc EXCEPT !.op = "deleteCategory", !.id = id]
     IN
     IF PostsUsing(id) > 0
     THEN proc' = [proc EXCEPT ![p] = [req EXCEPT !.pc = "done", !.outcome = "HasPosts"]]
     ELSE proc' = [proc EXCEPT ![p] = [req EXCEPT !.pc = "count"]]
  /\ UNCHANGED <<catVars, postVars, racedWrite, slugVars, loader, tags, listing, db>>

\* A safeDelete that does not look for subcategories.
RaceCountNoCheck(p) ==
  /\ proc[p].pc = "count"
  /\ proc' = [proc EXCEPT ![p].pc = "remove", ![p].clean = ~proc[p].dirty]
  /\ UNCHANGED <<catVars, postVars, racedWrite, slugVars, loader, tags, listing, db>>

\* const subcategoryCount = await this.countDocuments({ parent: id })
RaceCount(p) ==
  /\ proc[p].pc = "count"
  /\ IF SubcategoryCount(cats, proc[p].id) > 0
     THEN Finish(p, "HasSubcategories")
     ELSE proc' = [proc EXCEPT ![p].pc = "remove", ![p].clean = ~proc[p].dirty]
  /\ UNCHANGED <<catVars, postVars, racedWrite, slugVars, loader, tags, listing, db>>

\* this.findByIdAndDelete(id)
RaceRemove(p) ==
  /\ proc[p].pc = "remove"
  /\ cats' = [c \in DOMAIN cats \ {proc[p].id} |-> cats[c]]
  /\ proc' = Written(p)
  /\ racedWrite' = (racedWrite \/ proc[p].dirty)
  /\ UNCHANGED <<nextCat, last, postVars, slugVars, loader, tags, listing, db>>

OrphanCreate ==
  \E p \in Procs : \E parentId \in {Null} \cup DOMAIN cats : RaceNew(p, parentId)

OrphanInsert == \E p \in Procs : RaceInsert(p)

OrphanDelete == \E p \in Procs : \E id \in DOMAIN cats : RaceDelete(p, id)

OrphanCount == \E p \in Procs : RaceCount(p)

OrphanRemove == \E p \in Procs : RaceRemove(p)

OrphanNext ==
  \/ OrphanCreate
  \/ RaceFetch
  \/ RaceStep
  \/ OrphanInsert
  \/ OrphanDelete
  \/ OrphanCount
  \/ OrphanRemove
  \/ RaceDone

SpecOrphan == Init /\ [][OrphanNext]_vars

----------------------------------------------------------------------------
(* Post requests.  A request is a chain of awaited storage calls; between
   two of them other requests run. *)

\* The titles and slugs clients send: "h W" and "W" as titles; no slug,
\* "h-w" and the malformed "h w" as slugs.
HelloWorld == <<"h", " ", "W">>
NoArg == [hasTitle |-> FALSE, title |-> <<>>, hasSlug |-> FALSE, slug |-> <<>>,
          status |-> "absent", categories |-> <<>>]
TitleArg(t) == [NoArg EXCEPT !.hasTitle = TRUE, !.title = t]
SlugArg(s) == [NoArg EXCEPT !.hasSlug = TRUE, !.slug = s]

\* The arguments of createPost.
CreateArgs ==
  { TitleArg(HelloWorld), TitleArg(<<"W">>),
    [TitleArg(<<"W">>) EXCEPT !.hasSlug = TRUE, !.slug = <<"h", "-", "w">>],
    [TitleArg(<<"W">>) EXCEPT !.hasSlug = TRUE, !.slug = <<"h", " ", "w">>],
    [TitleArg(HelloWorld) EXCEPT !.status = "published"],
    [TitleArg(HelloWorld) EXCEPT !.categories = <<1>>] }

\* The update objects of updatePost: a field is assigned when it is present.
PostUpdates ==
  { TitleArg(<<"W">>),
    SlugArg(<<"h", "-", "w">>), SlugArg(<<>>),
    [NoArg EXCEPT !.categories = <<1>>] }

\* Category.countDocuments({ _id: { $in: ids }, isActive: true }) !== ids.length
CategoriesMissing(ids) ==
  Cardinality({c \in DOMAIN cats : cats[c].isActive /\ \E i \in 1..Len(ids) : ids[i] = c})
    # Len(ids)

\* A pre-save hook that sets publishedAt and never clears it.
PreSaveSetsOnly(doc) ==
  [doc EXCEPT
     !.slug = IF doc.slug = <<>> /\ doc.title # <<>>
              THEN StringSetter(DeriveSlug(doc.title))
              ELSE doc.slug,
     !.published = (doc.published \/ doc.status = "published")]

\* The pre-save hook of PostSchema on a document: slug, publishedAt.
PreSave(doc) ==
  [doc EXCEPT
     !.slug = IF doc.slug = <<>> /\ doc.title # <<>>
              THEN StringSetter(DeriveSlug(doc.title))
              ELSE doc.slug,
     !.published = (doc.status = "published")]

\* The validators of PostSchema that the modelled inputs can fail: the
\* required title and the pattern of a slug that is present.
PostValid(doc) ==
  /\ doc.title # <<>>
  /\ doc.slug # <<>> => MatchesSlugPattern(doc.slug)

\* The validator of PostSchema.publishedAt on a loaded document, whose
\* publishedAt is null or a date (a validator is skipped on undefined, which
\* is what a new document has).
PublishedAtValid(doc) == doc.status = "published" => doc.published

\* The unique index on slug: another stored post has the slug.
SlugTaken(id, slug) ==
  \E q \in DOMAIN posts : q # id /\ posts[q].slug = slug

\* Another request is between its first and its last storage call.
OtherInFlight(p) ==
  \E q \in Procs \ {p} : pst[q].pc \in {"insert", "check", "write"}

\* Worker p takes up request req; the requests in flight now overlap with it.
Begun(p, req) ==
  [q \in Procs |->
     IF q = p THEN req
     ELSE IF pst[q].pc # "idle" THEN [pst[q] EXCEPT !.overlapped = TRUE]
     ELSE pst[q]]

\* The resolver returns or rethrows.
Finished(req, outcome) ==
  [req EXCEPT !.pc = "idle", !.outcome = outcome, !.orig = NoPost, !.doc = NoPost]

PostFinish(p, outcome) ==
  pst' = [pst EXCEPT ![p] = Finished(pst[p], outcome)]

\* Mutation.createPost up to the insert: the category check, new Post(args),
\* validation and the pre-save hook.
PostCreateBegin(p, args) ==
  /\ pst[p].pc = "idle"
  /\ nextPost <= MaxPosts
  /\ LET made == [title      |-> Trim(args.title),
                  slug       |-> IF args.hasSlug THEN StringSetter(args.slug) ELSE <<>>,
                  status     |-> IF args.status = "absent" THEN "draft" ELSE args.status,
                  published  |-> FALSE,
                  version    |-> 1,
                  categories |-> args.categories,
                  viewCount  |-> 0,
                  v          |-> 0]
         req == [IdlePost EXCEPT !.op = "createPost", !.hasSlug = args.hasSlug,
                                 !.list = args.categories,
                                 !.doc = made, !.overlapped = OtherInFlight(p)]
     IN
     IF args.categories # <<>> /\ CategoriesMissing(args.categories) THEN
       pst' = Begun(p, Finished(req, "ValidationError"))
     ELSE IF ~PostValid(made) THEN
       pst' = Begun(p, Finished(req, "ValidationError"))
     ELSE
       pst' = Begun(p, [req EXCEPT !.pc = "insert", !.doc = PreSave(made)])
  /\ UNCHANGED <<catVars, posts, nextPost, strictQuery, raceVars, slugVars, loader, tags, listing, db>>

\* An insert into a collection whose slug index is not unique.
PostInsertNoIndex(p) ==
  /\ pst[p].pc = "insert"
  /\ posts' = posts @@ (nextPost :> pst[p].doc)
  /\ nextPost' = nextPost + 1
  /\ pst' = [pst EXCEPT ![p] = [Finished(pst[p], "ok") EXCEPT !.id = nextPost]]
  /\ UNCHANGED <<catVars, strictQuery, raceVars, slugVars, loader, tags, listing, db>>

\* The insert of post.save() under the unique index on slug.
PostInsert(p) ==
  /\ pst[p].pc = "insert"
  /\ IF SlugTaken(Null, pst[p].doc.slug) THEN
       /\ PostFinish(p, "DuplicateKey")
       /\ UNCHANGED <<posts, nextPost>>
     ELSE
       /\ posts' = posts @@ (nextPost :> pst[p].doc)
       /\ nextPost' = nextPost + 1
       /\ pst' = [pst EXCEPT ![p] = [Finished(pst[p], "ok") EXCEPT !.id = nextPost]]
  /\ UNCHANGED <<catVars, strictQuery, raceVars, slugVars, loader, tags, listing, db>>

\* Post.findOne({ _id: id, isDeleted: false }) of Mutation.updatePost.
\* PostSchema has no isDeleted path: the filter matches the post when the
\* driver strips the unknown field, and nothing when it passes it on.
PostUpdateFind(p, id, u) ==
  /\ pst[p].pc = "idle"
  /\ LET req == [IdlePost EXCEPT !.op = "updatePost", !.id = id,
                                 !.hasSlug = u.hasSlug,
                                 !.list = u.categories,
                                 !.checkCats = (u.categories # <<>>),
                                 !.overlapped = OtherInFlight(p)]
     IN
     IF ~(strictQuery /\ Stored(posts, id)) THEN
       pst' = Begun(p, Finished(req, "NotFoundError"))
     ELSE
       /\ posts[id].version < MaxVersion
       /\ pst' = Begun(p,
                    [req EXCEPT !.pc = "check", !.orig = posts[id],
                       \* the loaded copy with the updates to assign
                       !.doc = [title |-> IF u.hasTitle THEN Trim(u.title) ELSE posts[id].title,
                                slug |-> IF u.hasSlug THEN StringSetter(u.slug) ELSE posts[id].slug,
                                status |-> IF u.status = "absent" THEN posts[id].status ELSE u.status,
                                published |-> posts[id].published,
                                version |-> posts[id].version,
                                categories |-> IF u.categories # <<>> THEN u.categories
                                               ELSE posts[id].categories,
                                viewCount |-> posts[id].viewCount,
                                v |-> posts[id].v]])
  /\ UNCHANGED <<catVars, posts, nextPost, strictQuery, raceVars, slugVars, loader, tags, listing, db>>

\* The category check of updatePost, Object.assign(post, updates),
\* post.version += 1, and save() up to its write.
PostUpdateCheck(p) ==
  /\ pst[p].pc = "check"
  /\ LET assigned == [pst[p].doc EXCEPT !.version = pst[p].orig.version + 1]
     IN
     IF pst[p].checkCats /\ CategoriesMissing(assigned.categories) THEN
       PostFinish(p, "ValidationError")
     ELSE IF ~(PostValid(assigned) /\ PublishedAtValid(assigned)) THEN
       PostFinish(p, "ValidationError")
     ELSE
       pst' = [pst EXCEPT ![p].pc = "write", ![p].doc = PreSave(assigned)]
  /\ UNCHANGED <<catVars, posts, nextPost, strictQuery, raceVars, slugVars, loader, tags, listing, db>>

\* The stored document after $set of the paths that differ between the
\* copy the request loaded and the copy it saves.
SetModified(stored, orig, doc) ==
  [title      |-> IF doc.title # orig.title THEN doc.title ELSE stored.title,
   slug       |-> IF doc.slug # orig.slug THEN doc.slug ELSE stored.slug,
   status     |-> IF doc.status # orig.status THEN doc.status ELSE stored.status,
   published  |-> IF doc.published # orig.published THEN doc.published ELSE stored.published,
   version    |-> IF doc.version # orig.version THEN doc.version ELSE stored.version,
   categories |-> IF doc.categories # orig.categories THEN doc.categories ELSE stored.categories,
   viewCount  |-> IF doc.viewCount # orig.viewCount THEN doc.viewCount ELSE stored.viewCount,
   v          |-> stored.v]

\* The write of post.save() on a loaded post, under the unique index on
\* slug.  A save that sets the categories array matches the document by
\* _id and the __v it was loaded with and increments __v; when no document
\* matches, save() throws a VersionError.
PostUpdateWrite(p) ==
  /\ pst[p].pc = "write"
  /\ LET id == pst[p].id
         after == SetModified(posts[id], pst[p].orig, pst[p].doc)
         versioned == pst[p].doc.categories # pst[p].orig.categories
     IN
     IF versioned /\ posts[id].v # pst[p].orig.v THEN
       /\ PostFinish(p, "VersionError")
       /\ UNCHANGED posts
     ELSE IF SlugTaken(id, after.slug) THEN
       /\ PostFinish(p, "DuplicateKey")
       /\ UNCHANGED posts
     ELSE
       /\ posts' = [posts EXCEPT ![id] =
                      [after EXCEPT !.v = IF versioned THEN @ + 1 ELSE @]]
       /\ PostFinish(p, "ok")
  /\ UNCHANGED <<catVars, nextPost, strictQuery, raceVars, slugVars, loader, tags, listing, db>>

\* Mutation.updatePostCategory up to the write of save().  The two finds
\* are issued together; each reads one collection only, so their order
\* relative to the writes of other requests makes no difference.
PostCategoryFind(p, postId, categoryId) ==
  /\ pst[p].pc = "idle"
  /\ LET req == [IdlePost EXCEPT !.op = "updatePostCategory", !.id = postId,
                                 !.overlapped = OtherInFlight(p)]
     IN
     IF ~(strictQuery /\ Stored(posts, postId)) THEN
       pst' = Begun(p, Finished(req, "NotFoundError"))
     ELSE IF ~(Stored(cats, categoryId) /\ cats[categoryId].isActive) THEN
       pst' = Begun(p, Finished(req, "CategoryNotFound"))
     ELSE
       /\ posts[postId].version < MaxVersion
       /\ LET assigned == [posts[postId] EXCEPT !.categories = <<categoryId>>,
                                                !.version = @ + 1]
          IN
          IF ~(PostValid(assigned) /\ PublishedAtValid(assigned)) THEN
            pst' = Begun(p, Finished(req, "ValidationError"))
          ELSE
            pst' = Begun(p, [req EXCEPT !.pc = "write", !.orig = posts[postId],
                                        !.doc = PreSave(assigned)])
  /\ UNCHANGED <<catVars, posts, nextPost, strictQuery, raceVars, slugVars, loader, tags, listing, db>>

\* Query.post up to the write of save(): the view count of the loaded copy
\* is raised by one, the rest of the document is saved as it was loaded.
PostViewFind(p, id) ==
  /\ pst[p].pc = "idle"
  /\ Stored(posts, id) => posts[id].viewCount < MaxViews
  /\ LET req == [IdlePost EXCEPT !.op = "post", !.id = id,
                                 !.overlapped = OtherInFlight(p)]
     IN
     IF ~(strictQuery /\ Stored(posts, id)) THEN
       pst' = Begun(p, Finished(req, "NotFoundError"))
     ELSE IF ~(PostValid(posts[id]) /\ PublishedAtValid(posts[id])) THEN
       pst' = Begun(p, Finished(req, "ValidationError"))
     ELSE
       pst' = Begun(p, [req EXCEPT !.pc = "write", !.orig = posts[id],
                                   !.doc = PreSave([posts[id] EXCEPT
                                                      !.viewCount = @ + 1])])
  /\ UNCHANGED <<catVars, posts, nextPost, strictQuery, raceVars, slugVars, loader, tags, listing, db>>

\* The soft-delete marker of a stored post.  PostSchema has no isDeleted
\* path and nothing writes one, so no stored post carries the marker.
IsDeleted(doc) == FALSE

\* Mutation.deletePost: Post has no static softDelete, so the call that
\* follows a successful find throws a TypeError.
PostDelete(p, id) ==
  /\ pst[p].pc = "idle"
  /\ LET req == [IdlePost EXCEPT !.op = "deletePost", !.id = id,
                                 !.overlapped = OtherInFlight(p)]
     IN
     IF ~(strictQuery /\ Stored(posts, id))
     THEN pst' = Begun(p, Finished(req, "NotFoundError"))
     ELSE pst' = Begun(p, Finished(req, "TypeError"))
  /\ UNCHANGED <<catVars, posts, nextPost, strictQuery, raceVars, slugVars, loader, tags, listing, db>>

PostInit ==
  /\ CatInit /\ RaceIdle /\ SlugIdle /\ LoaderIdle /\ ListingIdle /\ DbIdle /\ TagsIdle
  /\ posts = EmptyStore
  /\ nextPost = 1
  /\ strictQuery \in BOOLEAN
  /\ pst = [p \in Procs |-> IdlePost]

CreatePost ==
  \E p \in Procs : \E args \in CreateArgs : PostCreateBegin(p, args)

InsertPost == \E p \in Procs : PostInsert(p)

UpdatePost ==
  \E p \in Procs : \E id \in DOMAIN posts \cup {NoSuchId} : \E u \in PostUpdates :
    PostUpdateFind(p, id, u)

CheckPost == \E p \in Procs : PostUpdateCheck(p)

WritePost == \E p \in Procs : PostUpdateWrite(p)

PostNext ==
  \/ CreatePost
  \/ InsertPost
  \/ UpdatePost
  \/ CheckPost
  \/ WritePost

SpecPost == PostInit /\ [][PostNext]_vars

----------------------------------------------------------------------------
(* Status and version of a post under overlapping requests: posts are
   created as drafts or published, their status is set, their category is
   replaced, and they are viewed. *)

StatusCategory ==
  /\ nextCat <= MaxStatusCats
  /\ CreateCategory(nextCat, nextCat, Null)
  /\ UNCHANGED notCatVars

StatusCreate ==
  \E p \in Procs : \E status \in {"absent", "published"} :
    PostCreateBegin(p, [TitleArg(HelloWorld) EXCEPT !.status = status])

StatusUpdate ==
  \E p \in Procs : \E id \in DOMAIN posts : \E status \in {"draft", "published"} :
    PostUpdateFind(p, id, [NoArg EXCEPT !.status = status])

StatusRecategorize ==
  \E p \in Procs : \E id \in DOMAIN posts : \E c \in DOMAIN cats :
    PostCategoryFind(p, id, c)

StatusView ==
  \E p \in Procs : \E id \in DOMAIN posts : PostViewFind(p, id)

StatusNext ==
  \/ StatusCategory
  \/ StatusCreate
  \/ InsertPost
  \/ StatusUpdate
  \/ CheckPost
  \/ StatusRecategorize
  \/ StatusView
  \/ WritePost

SpecStatus == PostInit /\ [][StatusNext]_vars

----------------------------------------------------------------------------
(* Views of a post under overlapping requests. *)

ViewsCreate == \E p \in Procs : PostCreateBegin(p, TitleArg(HelloWorld))

ViewsView == \E p \in Procs : \E id \in DOMAIN posts : PostViewFind(p, id)

ViewsNext ==
  \/ ViewsCreate
  \/ InsertPost
  \/ ViewsView
  \/ WritePost

SpecViews == PostInit /\ [][ViewsNext]_vars

----------------------------------------------------------------------------
(* Posts and their categories under requests that run one after the other:
   one worker, and category requests only between its requests. *)

\* The categories arguments clients send.
CategoryLists == {<<>>, <<1>>, <<2>>, <<1, 1>>, <<1, 2>>}

BlogCategory ==
  /\ pst[1].pc = "idle"
  /\ nextCat <= MaxBlogCats
  /\ \E parentId \in {Null} \cup DOMAIN cats :
       CreateCategory(nextCat, nextCat, parentId)
  /\ UNCHANGED notCatVars

BlogSetActive ==
  /\ pst[1].pc = "idle"
  /\ \E id \in DOMAIN cats : \E flag \in {"true", "false"} :
       UpdateCategory(id, ActiveUpdate(flag))
  /\ UNCHANGED notCatVars

BlogDeleteCategory ==
  /\ pst[1].pc = "idle"
  /\ \E id \in DOMAIN cats \cup {NoSuchId} : DeleteCategory(id)
  /\ UNCHANGED notCatVars

BlogCreatePost ==
  \E list \in CategoryLists :
    PostCreateBegin(1, [TitleArg(HelloWorld) EXCEPT !.categories = list])

BlogInsertPost == PostInsert(1)

BlogUpdatePost ==
  \E id \in DOMAIN posts : \E list \in CategoryLists \ {<<>>} :
    PostUpdateFind(1, id, [NoArg EXCEPT !.categories = list])

BlogCheckPost == PostUpdateCheck(1)

BlogRecategorize ==
  \E id \in DOMAIN posts : \E c \in DOMAIN cats \cup {NoSuchId} :
    PostCategoryFind(1, id, c)

BlogWritePost == PostUpdateWrite(1)

BlogDeletePost ==
  \E id \in DOMAIN posts \cup {NoSuchId} : PostDelete(1, id)

BlogNext ==
  \/ BlogCategory
  \/ BlogSetActive
  \/ BlogDeleteCategory
  \/ BlogCreatePost
  \/ BlogInsertPost
  \/ BlogUpdatePost
  \/ BlogCheckPost
  \/ BlogRecategorize
  \/ BlogWritePost
  \/ BlogDeletePost

SpecBlog == PostInit /\ [][BlogNext]_vars

----------------------------------------------------------------------------
(* Slug derivation on its own: every title a post can hold (PostSchema.title
   is required and trimmed) is run through the pre-save hook once. *)

SlugInit ==
  /\ CatInit /\ PostsIdle /\ RaceIdle /\ LoaderIdle /\ ListingIdle /\ DbIdle /\ TagsIdle
  /\ text \in {t \in StringsUpTo(MaxLen) : t # <<>> /\ Trim(t) = t}
  /\ derived = [done |-> FALSE, slug |-> <<>>]

\* this.slug = <derivation>, through the setters of PostSchema.slug
Derive ==
  /\ ~derived.done
  /\ derived' = [done |-> TRUE, slug |-> StringSetter(DeriveSlug(text))]
  /\ UNCHANGED <<catVars, postVars, raceVars, text, loader, tags, listing, db>>

SlugNext == Derive

SpecSlug == SlugInit /\ [][SlugNext]_vars

----------------------------------------------------------------------------
(* createPost on its own: a client sends any title, without a slug, and
   sends it again; the requests run one after the other. *)

TitleInit ==
  /\ CatInit /\ PostsIdle /\ RaceIdle /\ LoaderIdle /\ ListingIdle /\ DbIdle /\ TagsIdle
  /\ text \in StringsUpTo(MaxLen)
  /\ derived = [done |-> FALSE, slug |-> <<>>]

TitleCreate == PostCreateBegin(1, TitleArg(text))

TitleInsert == PostInsert(1)

TitleNext ==
  \/ TitleCreate
  \/ TitleInsert

SpecTitles == TitleInit /\ [][TitleNext]_vars

----------------------------------------------------------------------------
(* The categories loader of one request.  A key is an ObjectId object taken
   from a document (post.categories[k], category.parent): two documents that
   name the same category hold two objects.  The loader is built without a
   cacheKeyFn, so its cache map and its batch are keyed by the object. *)

\* The ids the key objects may hold: those of the categories and one more,
\* which has no row.
LoadIds == 1..(MaxLoaderCats + 1)

\* The batch function of loaders.categories with a find by id alone.
BatchLoadCategoriesAnyRecord(store, keys) ==
  [k \in 1..Len(keys) |->
     IF keys[k] \in DOMAIN store THEN keys[k] ELSE Null]

\* The batch function of loaders.categories: one find over the key list,
\* then for each key the active category of that id, or null.
BatchLoadCategories(store, keys) ==
  [k \in 1..Len(keys) |->
     IF keys[k] \in DOMAIN store /\ store[keys[k]].isActive
     THEN keys[k] ELSE Null]

\* loader.load(key) on the object r: a cached object is answered from the
\* cache, any other is appended to the batch of the current tick.
Load(ld, r) ==
  IF r \in ld.cache
  THEN [ld EXCEPT !.asked = Append(@, r)]
  ELSE [ld EXCEPT !.asked = Append(@, r), !.batch = Append(@, r),
                  !.cache = @ \cup {r}]

\* LoadAll(ld, rs): loadMany, that is load on each key in turn.
RECURSIVE LoadAll(_, _)
LoadAll(ld, rs) ==
  IF rs = <<>> THEN ld ELSE LoadAll(Load(ld, Head(rs)), Tail(rs))

\* Category.parent: loaders.categories.load(parent.parent), with the object
\* of a document resolved before or with the object of another document.
LoaderLoad ==
  /\ Len(loader.asked) < MaxLoads
  /\ \/ \E r \in 1..Len(loader.objs) : loader' = Load(loader, r)
     \/ /\ Len(loader.objs) < MaxLoads
        /\ \E id \in LoadIds :
             loader' = Load([loader EXCEPT !.objs = Append(@, id)],
                            Len(loader.objs) + 1)
  /\ UNCHANGED <<catVars, postVars, raceVars, slugVars, tags, listing, db>>

\* Post.categories: loaders.categories.loadMany(parent.categories) on the
\* array of a post document not resolved before.  A stored array names no
\* category twice: createPost and updatePost reject such a list by count.
LoaderLoadMany ==
  \E ids \in CategoryLists :
    LET n == Len(loader.objs) IN
    /\ ids # <<>>
    /\ \A i, j \in 1..Len(ids) : ids[i] = ids[j] => i = j
    /\ n + Len(ids) <= MaxLoads
    /\ Len(loader.asked) + Len(ids) <= MaxLoads
    /\ \A k \in 1..Len(ids) : ids[k] \in LoadIds
    /\ loader' = LoadAll([loader EXCEPT !.objs = @ \o ids],
                         [k \in 1..Len(ids) |-> n + k])
    /\ UNCHANGED <<catVars, postVars, raceVars, slugVars, tags, listing, db>>

\* The end of the tick: the batch function runs once on the keys of the
\* batch and every caller gets the value at the place of its key.
LoaderDispatch ==
  LET keys == [k \in 1..Len(loader.batch) |-> loader.objs[loader.batch[k]]]
      values == BatchLoadCategories(cats, keys)
      resolved == {loader.batch[k] : k \in 1..Len(loader.batch)}
  IN
  /\ loader.batch # <<>>
  /\ loader.fetches < MaxLoads
  /\ loader' = [loader EXCEPT
       !.fetches = @ + 1, !.fetched = keys, !.values = values,
       !.got = [r \in DOMAIN @ \cup resolved |->
                  IF r \in resolved
                  THEN values[CHOOSE k \in 1..Len(keys) : loader.batch[k] = r]
                  ELSE @[r]],
       !.batch = <<>>, !.asked = <<>>]
  /\ UNCHANGED <<catVars, postVars, raceVars, slugVars, tags, listing, db>>

\* One set of loaders made at start-up and handed to every request.
LoaderNewRequestShared ==
  /\ loader.request < MaxRequests
  /\ loader' = [loader EXCEPT !.request = @ + 1, !.fetches = 0]
  /\ UNCHANGED <<catVars, postVars, raceVars, slugVars, tags, listing, db>>

\* createContext: the next request starts with loaders of its own.
LoaderNewRequest ==
  /\ loader.request < MaxRequests
  /\ loader' = [NewLoader EXCEPT !.request = loader.request + 1]
  /\ UNCHANGED <<catVars, postVars, raceVars, slugVars, tags, listing, db>>

LoaderCategory ==
  /\ nextCat <= MaxLoaderCats
  /\ CreateCategory(nextCat, nextCat, Null)
  /\ UNCHANGED notCatVars

LoaderSetActive == SetActive

LoaderNext ==
  \/ LoaderCategory
  \/ LoaderSetActive
  \/ LoaderLoad
  \/ LoaderLoadMany
  \/ LoaderDispatch
  \/ LoaderNewRequest

SpecLoader == Init /\ [][LoaderNext]_vars

----------------------------------------------------------------------------
(* The batch functions of the loaders on their own: every small store, every
   short key list. *)

\* The ids of a set in the order storage returns documents (insertion order).
RECURSIVE NaturalOrder(_)
NaturalOrder(S) ==
  IF S = {} THEN <<>>
  ELSE LET m == CHOOSE x \in S : \A y \in S : x <= y
       IN <<m>> \o NaturalOrder(S \ {m})

\* The batch function of loaders.tags: the tag of each key's id, or null.
BatchLoadTags(stored, keys) ==
  [k \in 1..Len(keys) |-> IF keys[k] \in stored THEN keys[k] ELSE Null]

\* The batch function of loaders.subcategories: one find of the active
\* categories whose parent is among the keys, then for each key those of
\* the found whose parent is the key.
BatchLoadSubcategories(store, keys) ==
  LET found == SelectSeq(NaturalOrder(DOMAIN store),
                 LAMBDA c : /\ store[c].isActive
                            /\ \E k \in 1..Len(keys) : store[c].parent = keys[k])
  IN [k \in 1..Len(keys) |->
        SelectSeq(found, LAMBDA c : store[c].parent = keys[k])]

\* The stores of at most MaxBatchCats categories: any of them may have been
\* deleted or deactivated, and a category is a root or a child of an older
\* one.
BatchStores ==
  UNION {
    { [c \in D |-> [name |-> c, slug |-> c, parent |-> par[c],
                    isActive |-> act[c]]] :
        par \in {f \in [D -> {Null} \cup D] : \A c \in D : f[c] < c},
        act \in [D -> BOOLEAN] } :
    D \in SUBSET (1..MaxBatchCats) }

\* The key lists of a batch: ids with and without a document.
RECURSIVE KeysUpTo(_)
KeysUpTo(n) ==
  IF n = 0 THEN {<<>>}
  ELSE LET shorter == KeysUpTo(n - 1)
       IN shorter \cup
          {Append(ks, id) : ks \in {x \in shorter : Len(x) = n - 1},
                            id \in 1..(MaxBatchCats + 1)}

BatchKeys == KeysUpTo(MaxBatchKeys) \ {<<>>}

BatchInit ==
  /\ cats \in BatchStores
  /\ nextCat = MaxBatchCats + 1
  /\ last = NoRequest
  /\ tags \in SUBSET (1..MaxBatchCats)
  /\ PostsIdle /\ RaceIdle /\ SlugIdle /\ LoaderIdle /\ ListingIdle /\ DbIdle

\* The loader of the given name of a new request after one call of its
\* batch function.
Batched(name, keys, values) ==
  [NewLoader EXCEPT !.name = name, !.fetches = 1,
                    !.fetched = keys, !.values = values]

BatchCategories ==
  /\ loader.fetches = 0
  /\ \E keys \in BatchKeys :
       loader' = Batched("categories", keys, BatchLoadCategories(cats, keys))
  /\ UNCHANGED <<catVars, postVars, raceVars, slugVars, tags, listing, db>>

BatchTags ==
  /\ loader.fetches = 0
  /\ \E keys \in BatchKeys :
       loader' = Batched("tags", keys, BatchLoadTags(tags, keys))
  /\ UNCHANGED <<catVars, postVars, raceVars, slugVars, tags, listing, db>>

BatchSubcategories ==
  /\ loader.fetches = 0
  /\ \E keys \in BatchKeys :
       loader' = Batched("subcategories", keys,
                         BatchLoadSubcategories(cats, keys))
  /\ UNCHANGED <<catVars, postVars, raceVars, slugVars, tags, listing, db>>

BatchNext ==
  \/ BatchCategories
  \/ BatchTags
  \/ BatchSubcategories

SpecBatch == BatchInit /\ [][BatchNext]_vars

----------------------------------------------------------------------------
(* Listings of posts: the filter compiled to a storage query, the query
   matched against the stored posts, and the page cut out of the matches.
   The posts of a listing carry, besides the fields of the mutations, the
   instant of publication and the author; their content holds none of the
   searched words. *)

SeqRange(q) == {q[k] : k \in 1..Len(q)}

\* The words of a text: its maximal runs without whitespace.
RECURSIVE WordsOf(_, _)
WordsOf(t, word) ==
  IF t = <<>> THEN (IF word = <<>> THEN {} ELSE {word})
  ELSE IF Head(t) \in Whitespace
       THEN (IF word = <<>> THEN {} ELSE {word}) \cup WordsOf(Tail(t), <<>>)
       ELSE WordsOf(Tail(t), Append(word, Head(t)))

\* The text holds the pattern somewhere, letter case aside ($regex with
\* $options 'i', for a pattern of plain characters).
RegexMatch(t, pattern) ==
  \E i \in 1..(Len(t) + 1) :
    /\ i + Len(pattern) - 1 <= Len(t)
    /\ ToLowerCase(SubSeq(t, i, i + Len(pattern) - 1)) = ToLowerCase(pattern)

\* $text: some word of the search is a word of the text, letter case aside.
TextMatch(t, search) ==
  WordsOf(ToLowerCase(t), <<>>) \cap WordsOf(ToLowerCase(search), <<>>) # {}

\* A filter without a search text, a filter without a list of tags, and a
\* query without a search clause.
AbsentText == <<"absent">>
AbsentList == <<Absent>>
NoSearch == [kind |-> "none", term |-> <<>>]

\* buildSearchQuery
buildSearchQuery(searchText) ==
  LET trimmedText == Trim(searchText) IN
  IF searchText = AbsentText \/ searchText = <<>> THEN NoSearch
  ELSE IF trimmedText = <<>> THEN NoSearch
  ELSE IF Len(trimmedText) > RegexLen
       THEN [kind |-> "text", term |-> trimmedText]
       ELSE [kind |-> "regex", term |-> trimmedText]

\* buildFilterQuery: the query object; a key the object lacks is marked
\* absent, and publishedAt is there when one of its bounds is.
buildFilterQuery(filter) ==
  [isDeleted |-> "false",
   search |-> IF filter.searchText = AbsentText \/ filter.searchText = <<>>
              THEN NoSearch ELSE buildSearchQuery(filter.searchText),
   status |-> filter.status,
   categories |-> filter.categoryId,
   tags |-> IF filter.tagIds = AbsentList \/ filter.tagIds = <<>>
            THEN AbsentList ELSE filter.tagIds,
   publishedAt |-> [gte |-> filter.publishedAfter,
                   lte |-> filter.publishedBefore],
   author |-> filter.authorId]

\* The query as storage receives it: where filters are strict, the keys
\* that are no path of PostSchema (isDeleted, tags) are dropped.
CastQuery(query) ==
  IF strictQuery
  THEN [query EXCEPT !.isDeleted = "absent", !.tags = AbsentList]
  ELSE query

\* The document matches the query storage received.  No stored post has
\* an isDeleted or a tags field, and an equality or $in on a missing field
\* matches nothing.
Matches(doc, query) ==
  /\ query.isDeleted = "absent"
  /\ query.tags = AbsentList
  /\ \/ query.search.kind = "none"
     \/ /\ query.search.kind = "regex"
        /\ RegexMatch(doc.title, query.search.term)
     \/ /\ query.search.kind = "text"
        /\ TextMatch(doc.title, query.search.term)
  /\ query.status = "absent" \/ doc.status = query.status
  /\ query.categories = Absent \/ query.categories \in SeqRange(doc.categories)
  /\ \/ query.publishedAt.gte = Absent /\ query.publishedAt.lte = Absent
     \/ /\ doc.publishedAt # Null
        /\ query.publishedAt.gte = Absent \/ doc.publishedAt >= query.publishedAt.gte
        /\ query.publishedAt.lte = Absent \/ doc.publishedAt <= query.publishedAt.lte
  /\ query.author = Absent \/ doc.author = query.author

\* paginate
paginate(page, limit) ==
  LET normalizedPage == IF page > 1 THEN page ELSE 1
      normalizedLimit == IF limit < MaxLimit THEN limit ELSE MaxLimit
  IN [skip |-> (normalizedPage - 1) * normalizedLimit,
      limit |-> normalizedLimit,
      page |-> normalizedPage]

\* Math.ceil(total / limit) for a total that is not negative; a division by
\* zero gives no finite number.
Pages(total, limit) ==
  IF limit = 0 THEN "NotFinite"
  ELSE IF limit > 0 THEN (total + limit - 1) \div limit
  ELSE 0 - (total \div (0 - limit))

\* The documents a find returns after skip and limit, out of n matches:
\* how many.  A limit of 0 is no limit and a negative limit counts as its
\* absolute value.
PageLength(n, skip, limit) ==
  LET rest == IF n > skip THEN n - skip ELSE 0
      most == IF limit < 0 THEN 0 - limit ELSE limit
  IN IF limit = 0 \/ rest < most THEN rest ELSE most

\* What a listing returns for the posts that match: the pagination object
\* and the length of the page.  Storage refuses a negative skip.
Listed(op, filter, query, page, limit, matched, total) ==
  LET pagination == paginate(page, limit) IN
  [op |-> op, filter |-> filter, query |-> query,
   args |-> [page |-> page, limit |-> limit],
   outcome |-> IF pagination.skip < 0 THEN "MongoServerError" ELSE "ok",
   matched |-> matched,
   length |-> IF pagination.skip < 0 THEN 0
              ELSE PageLength(Cardinality(matched), pagination.skip,
                              pagination.limit),
   skip |-> pagination.skip,
   page |-> pagination.page,
   limit |-> pagination.limit,
   total |-> total,
   pages |-> Pages(total, pagination.limit),
   hasNext |-> pagination.page * pagination.limit < total,
   hasPrev |-> pagination.page > 1]

\* The filter objects: a missing field is Absent.
SearchTexts == {AbsentText, <<>>, <<" ">>, <<"h", " ">>, <<"w", "w", "w">>}

FilterTimes == 1..MaxTime

Filters ==
  [searchText : SearchTexts,
   status : {"absent", "draft", "published"},
   categoryId : {Absent, 1},
   tagIds : {AbsentList, <<>>, <<1>>},
   publishedAfter : {Absent} \cup FilterTimes,
   publishedBefore : {Absent} \cup FilterTimes,
   authorId : {Absent, 1}]

NoFilter ==
  [searchText |-> AbsentText, status |-> "absent", categoryId |-> Absent,
   tagIds |-> AbsentList, publishedAfter |-> Absent, publishedBefore |-> Absent,
   authorId |-> Absent]

\* The posts a listing may meet: a draft has no instant of publication, a
\* published post has one.
ListedPosts ==
  { [title |-> title, slug |-> ToLowerCase(title), status |-> state.status,
     published |-> state.publishedAt # Null, publishedAt |-> state.publishedAt,
     version |-> 1, categories |-> categories, author |-> author,
     viewCount |-> 0, v |-> 0] :
      title \in {<<"h">>, <<"W", "w", "w">>},
      state \in {[status |-> "draft", publishedAt |-> Null]} \cup
                {[status |-> "published", publishedAt |-> t] : t \in FilterTimes},
      categories \in {<<>>, <<1>>, <<2, 1>>},
      author \in {Null, 1} }

FilterInit ==
  /\ CatInit /\ RaceIdle /\ SlugIdle /\ LoaderIdle /\ ListingIdle /\ DbIdle /\ TagsIdle
  /\ \E doc \in ListedPosts : posts = (1 :> doc)
  /\ nextPost = 2
  /\ strictQuery \in BOOLEAN
  /\ pst = [p \in Procs |-> IdlePost]

\* Query.filteredPosts
FilteredPosts(filter, page, limit) ==
  LET query == buildFilterQuery(filter)
      matched == {id \in DOMAIN posts : Matches(posts[id], CastQuery(query))}
  IN
  /\ listing' = Listed("filteredPosts", filter, query, page, limit,
                       matched, Cardinality(matched))
  /\ UNCHANGED <<catVars, postVars, raceVars, slugVars, loader, tags, db>>

FilterPosts ==
  /\ listing = NoListing
  /\ \E filter \in Filters : FilteredPosts(filter, DefaultPage, DefaultLimit)

FilterNext == FilterPosts

SpecFilter == FilterInit /\ [][FilterNext]_vars

----------------------------------------------------------------------------
(* Post counts of categories: the batched count of the postCount loader and
   the count per category of the categories query, over the same store. *)

\* A stored post has the field isDeleted with the value false.  PostSchema
\* has no such path, so no stored post has the field.
StoresNotDeleted(doc) == FALSE

\* The batch function of loaders.categoryPostCounts.  The stages of an
\* aggregation reach storage as written, whatever the schema: $match on the
\* categories, isDeleted and status; $unwind of categories; $match of the
\* unwound category; $group counting by category; then the count of each
\* key, or 0.
BatchLoadPostCounts(store, keys) ==
  LET matched == {q \in DOMAIN store :
                    /\ SeqRange(store[q].categories) \cap SeqRange(keys) # {}
                    /\ StoresNotDeleted(store[q])
                    /\ store[q].status = "published"}
      unwound == UNION {{<<q, i>> : i \in 1..Len(store[q].categories)} :
                          q \in matched}
      kept == {pair \in unwound :
                 store[pair[1]].categories[pair[2]] \in SeqRange(keys)}
      count(id) == Cardinality({pair \in kept :
                                  store[pair[1]].categories[pair[2]] = id})
  IN [k \in 1..Len(keys) |-> count(keys[k])]

\* Post.countDocuments({ categories: id, isDeleted: false, status:
\* 'published' }): the filter is cast against PostSchema, so isDeleted is
\* dropped where filters are strict and matches no document elsewhere.
PublishedPostsUsing(store, id) ==
  IF strictQuery
  THEN Cardinality({q \in DOMAIN store :
                      /\ id \in SeqRange(store[q].categories)
                      /\ store[q].status = "published"})
  ELSE 0

\* The posts a count may meet.
CountedPosts ==
  { [NoPost EXCEPT !.status = status, !.published = (status = "published"),
                   !.categories = categories] :
      status \in {"draft", "published"},
      categories \in {<<>>, <<1>>, <<2>>, <<2, 1>>} }

\* The post stored under id q: its title and slug are q letters long.
Titled(doc, q) ==
  [doc EXCEPT !.title = [i \in 1..q |-> "h"], !.slug = [i \in 1..q |-> "h"]]

CountsInit ==
  /\ RaceIdle /\ SlugIdle /\ LoaderIdle /\ ListingIdle /\ DbIdle /\ TagsIdle
  /\ \E act \in [1..MaxBatchCats -> BOOLEAN] :
       cats = [c \in 1..MaxBatchCats |->
                 [name |-> c, slug |-> c, parent |-> Null, isActive |-> act[c]]]
  /\ nextCat = MaxBatchCats + 1
  /\ last = NoRequest
  /\ \E n \in 0..MaxCountPosts : \E docs \in [1..n -> CountedPosts] :
       /\ posts = [q \in 1..n |-> Titled(docs[q], q)]
       /\ nextPost = n + 1
  /\ strictQuery \in BOOLEAN
  /\ pst = [p \in Procs |-> IdlePost]

\* Category.postCount for the categories of one response: one batch of
\* loaders.categoryPostCounts.
CountsLoad ==
  /\ loader.fetches = 0
  /\ \E keys \in BatchKeys :
       loader' = Batched("categoryPostCounts", keys,
                         BatchLoadPostCounts(posts, keys))
  /\ UNCHANGED <<catVars, postVars, raceVars, slugVars, tags, listing, db>>

\* Query.categories: the active categories, without those that count no
\* published post unless includeEmpty is set.
CountsCategories ==
  /\ listing = NoListing
  /\ \E includeEmpty \in BOOLEAN :
       LET active == {c \in DOMAIN cats : cats[c].isActive}
           postCounts == [c \in active |-> PublishedPostsUsing(posts, c)]
       IN listing' =
            [op |-> "categories", includeEmpty |-> includeEmpty,
             counted |-> IF includeEmpty THEN {} ELSE active,
             postCounts |-> postCounts,
             categories |-> IF includeEmpty THEN active
                            ELSE {c \in active : postCounts[c] > 0}]
  /\ UNCHANGED <<catVars, postVars, raceVars, slugVars, loader, tags, db>>

CountsNext ==
  \/ CountsLoad
  \/ CountsCategories

SpecCounts == CountsInit /\ [][CountsNext]_vars

----------------------------------------------------------------------------
(* Pages: listings with any page and limit argument over stores of a few
   posts. *)

PageArgs == (0 - 1)..MaxPageArg

LimitArgs == PageArgs \cup {MaxLimit, MaxLimit + 1}

PagesInit ==
  /\ CatInit /\ RaceIdle /\ SlugIdle /\ LoaderIdle /\ ListingIdle /\ DbIdle /\ TagsIdle
  /\ \E n \in 0..MaxPagePosts :
       /\ posts = [q \in 1..n |-> Titled(NoPost, q)]
       /\ nextPost = n + 1
  /\ strictQuery \in BOOLEAN
  /\ pst = [p \in Procs |-> IdlePost]

\* Query.posts: paginate, then Post.findActive(), which PostSchema does not
\* define: the call throws a TypeError before any storage call is made.
PagesPosts ==
  /\ listing = NoListing
  /\ \E page \in PageArgs : \E limit \in LimitArgs :
       listing' = [Listed("posts", NoFilter, buildFilterQuery(NoFilter),
                          page, limit, {}, 0)
                     EXCEPT !.outcome = "TypeError", !.length = 0]
  /\ UNCHANGED <<catVars, postVars, raceVars, slugVars, loader, tags, db>>

\* Query.filteredPosts without a filter.
PagesFiltered ==
  /\ listing = NoListing
  /\ \E page \in PageArgs : \E limit \in LimitArgs :
       FilteredPosts(NoFilter, page, limit)

PagesNext ==
  \/ PagesPosts
  \/ PagesFiltered

SpecPages == PagesInit /\ [][PagesNext]_vars

----------------------------------------------------------------------------
(* DatabaseManager: connect() with its retries, disconnect(), and the health
   check that the interval timer runs. MONGODB_URI is set. Every await is a
   step of its own; the connection attempts, the pings and the close succeed
   or fail as the network decides. *)

DbInit ==
  /\ CatInit /\ PostsIdle /\ RaceIdle /\ SlugIdle /\ LoaderIdle /\ ListingIdle
  /\ TagsIdle
  /\ \E production \in BOOLEAN : db = [NewDb EXCEPT !.production = production]

\* startHealthCheck: clear the interval held, set a new one.
startHealthCheck(d) ==
  LET cleared == IF d.healthCheckInterval # Null
                   THEN d.timers \ {d.healthCheckInterval}
                   ELSE d.timers
  IN [d EXCEPT !.timers = cleared \cup {d.nextTimer},
               !.healthCheckInterval = d.nextTimer,
               !.nextTimer = @ + 1]

\* stopHealthCheck: clear the interval held, if any.
stopHealthCheck(d) ==
  IF d.healthCheckInterval # Null
    THEN [d EXCEPT !.timers = @ \ {d.healthCheckInterval},
                   !.healthCheckInterval = Null]
    ELSE d

\* connect() up to its await of mongoose.connect: count the attempt.
connect(d, from) ==
  [d EXCEPT !.connectionAttempts = @ + 1,
            !.calls = Append(@, [from |-> from, pc |-> "connecting",
                                 made |-> 1, outcome |-> "pending"])]

\* process.exit: every timer and every call of the process ends.
Exit(d, c) ==
  [d EXCEPT !.exited = TRUE, !.timers = {},
            !.calls = [k \in 1..Len(d.calls) |->
                         IF d.calls[k].pc = "done" THEN d.calls[k]
                         ELSE [d.calls[k] EXCEPT !.pc = "done",
                                                 !.outcome = "exit"]]]

\* The start-up calls connectDB() once.
DbStartUp ==
  /\ ~db.exited
  /\ db.calls = <<>>
  /\ db' = connect(db, "startup")
  /\ UNCHANGED <<catVars, postVars, raceVars, slugVars, loader, tags, listing>>

\* mongoose.connect resolves.
DbConnected ==
  /\ ~db.exited
  /\ \E c \in 1..Len(db.calls) :
       /\ db.calls[c].pc = "connecting"
       /\ db' = startHealthCheck(
                  [db EXCEPT !.isConnected = TRUE,
                             !.connectionAttempts = 0,
                             !.calls[c].pc = "done",
                             !.calls[c].outcome = "true"])
  /\ UNCHANGED <<catVars, postVars, raceVars, slugVars, loader, tags, listing>>

\* mongoose.connect rejects: wait and retry, or give up.
DbConnectFailed ==
  /\ ~db.exited
  /\ \E c \in 1..Len(db.calls) :
       /\ db.calls[c].pc = "connecting"
       /\ LET lost == [db EXCEPT !.isConnected = FALSE]
          IN db' = IF db.connectionAttempts < maxRetries
                     THEN [lost EXCEPT !.calls[c].pc = "delay"]
                   ELSE IF db.production
                     THEN Exit(lost, c)
                   ELSE [lost EXCEPT !.calls[c].pc = "done",
                                     !.calls[c].outcome = "error"]
  /\ UNCHANGED <<catVars, postVars, raceVars, slugVars, loader, tags, listing>>

\* The retry delay is over: return this.connect().
DbRetry ==
  /\ ~db.exited
  /\ \E c \in 1..Len(db.calls) :
       /\ db.calls[c].pc = "delay"
       /\ db' = [db EXCEPT !.connectionAttempts = @ + 1,
                           !.calls[c].pc = "connecting",
                           !.calls[c].made = @ + 1]
  /\ UNCHANGED <<catVars, postVars, raceVars, slugVars, loader, tags, listing>>

\* disconnect() up to its await of the close.
DbDisconnect ==
  /\ ~db.exited
  /\ db.closing < MaxClosing
  /\ db' = [stopHealthCheck(db) EXCEPT !.closing = @ + 1]
  /\ UNCHANGED <<catVars, postVars, raceVars, slugVars, loader, tags, listing>>

\* The close resolves, or there was nothing to close.
DbClosed ==
  /\ ~db.exited
  /\ db.closing > 0
  /\ db' = [db EXCEPT !.closing = @ - 1, !.isConnected = FALSE]
  /\ UNCHANGED <<catVars, postVars, raceVars, slugVars, loader, tags, listing>>

\* The close rejects: disconnect() rethrows.
DbCloseFailed ==
  /\ ~db.exited
  /\ db.closing > 0
  /\ db' = [db EXCEPT !.closing = @ - 1]
  /\ UNCHANGED <<catVars, postVars, raceVars, slugVars, loader, tags, listing>>

\* An interval timer fires: healthCheck() up to its await of the ping.
DbTick ==
  /\ ~db.exited
  /\ db.timers # {}
  /\ db.pings < MaxPings
  /\ db' = [db EXCEPT !.pings = @ + 1]
  /\ UNCHANGED <<catVars, postVars, raceVars, slugVars, loader, tags, listing>>

\* The ping resolves.
DbPingOk ==
  /\ ~db.exited
  /\ db.pings > 0
  /\ db' = [db EXCEPT !.pings = @ - 1, !.isConnected = TRUE]
  /\ UNCHANGED <<catVars, postVars, raceVars, slugVars, loader, tags, listing>>

\* The ping rejects: a manager that was connected reconnects.
DbPingFailed ==
  /\ ~db.exited
  /\ db.pings > 0
  /\ db.isConnected => Len(db.calls) < MaxCalls
  /\ LET done == [db EXCEPT !.pings = @ - 1]
     IN db' = IF db.isConnected
                THEN connect([done EXCEPT !.isConnected = FALSE], "healthCheck")
                ELSE done
  /\ UNCHANGED <<catVars, postVars, raceVars, slugVars, loader, tags, listing>>

DbNext ==
  \/ DbStartUp
  \/ DbConnected
  \/ DbConnectFailed
  \/ DbRetry
  \/ DbDisconnect
  \/ DbClosed
  \/ DbCloseFailed
  \/ DbTick
  \/ DbPingOk
  \/ DbPingFailed

SpecDb == DbInit /\ [][DbNext]_vars

----------------------------------------------------------------------------
(* Shape of the parent relation *)

\* Hops from category `from` up to category `to` along parent (0 when they
\* are the same), or -1 when `to` is not met within fuel hops.
RECURSIVE DistUp(_, _, _, _)
DistUp(store, from, to, fuel) ==
  IF from = to THEN 0
  ELSE IF fuel = 0 \/ ~Stored(store, from) THEN -1
  ELSE IF store[from].parent = Null THEN -1
  ELSE LET d == DistUp(store, store[from].parent, to, fuel - 1)
       IN IF d < 0 THEN -1 ELSE d + 1

\* Hops from c up to a root (a category without parent), or -1 when the
\* walk does not end at one.
RECURSIVE HopsToRoot(_, _, _)
HopsToRoot(store, c, fuel) ==
  IF ~Stored(store, c) THEN -1
  ELSE IF store[c].parent = Null THEN 0
  ELSE IF fuel = 0 THEN -1
  ELSE LET h == HopsToRoot(store, store[c].parent, fuel - 1)
       IN IF h < 0 THEN -1 ELSE h + 1

Size(store) == Cardinality(DOMAIN store)

\* c is its own ancestor.
OnCycle(store, c) ==
  store[c].parent # Null /\ DistUp(store, store[c].parent, c, Size(store)) >= 0

\* Following parent from any category never revisits a category.
Acyclic(store) == \A c \in DOMAIN store : ~OnCycle(store, c)

\* The root of the tree of c in an acyclic store.
RootOf(store, c) ==
  CHOOSE r \in DOMAIN store :
    store[r].parent = Null /\ DistUp(store, c, r, Size(store)) >= 0

----------------------------------------------------------------------------
(* Claims on the hierarchy *)

\* C1 (as claimed): in every state reached by atomic createCategory,
\* updateCategory and deleteCategory requests the parent relation is acyclic.
C1_Acyclic == Acyclic(cats)

\* C2 (as claimed): every category reaches a root in at most 10 parent
\* hops, and a parent assignment whose walk from the proposed parent needs
\* more than 10 hops is rejected.
C2_DepthBounded ==
  /\ \A c \in DOMAIN cats : HopsToRoot(cats, c, Size(cats)) \in 0..MaxDepth
  /\ (/\ last.op \in {"createCategory", "updateCategory"}
      /\ last.outcome = "ok"
      /\ last.parent \notin {Null, Absent})
     => HopsToRoot(cats, last.parent, Size(cats)) \in 0..MaxDepth

\* C3: in an acyclic store the validator rejects the parent Y for the
\* target X when Y is a descendant of X at a distance of 1 to 10 hops, and
\* accepts Y when Y is a root other than X and not the root of X's tree.
C3_ValidateParent ==
  Acyclic(cats) =>
    \A X \in DOMAIN cats : \A Y \in DOMAIN cats :
      /\ DistUp(cats, Y, X, Size(cats)) \in 1..MaxDepth
           => ParentValidate(cats, X, Y) = "invalid"
      /\ (cats[Y].parent = Null /\ Y # X /\ RootOf(cats, X) # Y)
           => ParentValidate(cats, X, Y) = "accept"

\* C3 witness: a reparenting under a descendant exactly 10 hops below the
\* target has been rejected, and an unrelated root is stored.
C3_Witness ==
  /\ last.op = "updateCategory"
  /\ last.outcome = "InvalidParentOrCircular"
  /\ Stored(cats, last.id) /\ Stored(cats, last.parent)
  /\ Acyclic(cats)
  /\ DistUp(cats, last.parent, last.id, Size(cats)) = MaxDepth
  /\ \E r \in Roots(cats) : r # RootOf(cats, last.id)

\* C4: a step stores a non-null parent on a category (a new category, or
\* a changed parent) only if the validator accepts that target and parent
\* on the store the request ran on.
C4_ValidatedBeforeWrite ==
  [][\A c \in DOMAIN cats' :
       (/\ cats'[c].parent # Null
        /\ (~Stored(cats, c) \/ cats[c].parent # cats'[c].parent))
       => ParentValidate(cats, c, cats'[c].parent) = "accept"]_vars

\* C4 witness: an updateCategory has moved a category under another one.
C4_Witness ==
  /\ last.op = "updateCategory" /\ last.outcome = "ok"
  /\ last.parent \notin {Null, Absent}
  /\ Stored(cats, last.id) /\ cats[last.id].parent = last.parent
  /\ Size(cats) = MaxCats

\* The request of the step is updateCategory(A, { parent: B }) with B a
\* child of A in the store the request runs on.
ReparentUnderChild(A, B) ==
  /\ last'.op = "updateCategory" /\ last'.id = A /\ last'.parent = B
  /\ Stored(cats, A) /\ Stored(cats, B)
  /\ cats[B].parent = A

RejectionRule(store, target, parent) ==
  IF parent = target THEN "self-reference"
  ELSE IF ~Stored(store, parent) THEN "parent-not-found"
  ELSE IF DistUp(store, parent, target, Size(store)) >= 0 THEN "cycle"
  ELSE "depth-exceeded"

ValidatorRejected(req) ==
  /\ req.op \in {"createCategory", "updateCategory"}
  /\ req.outcome \in {"InvalidParentOrCircular", "TypeError"}

\* C7 (as claimed): rejected parent assignments that break different rules
\* report different reasons.
C7_DistinctReasons ==
  [][(/\ ValidatorRejected(last) /\ ValidatorRejected(last')
      /\ RejectionRule(cats, last.id, last.parent)
           # RejectionRule(cats', last'.id, last'.parent))
     => last.outcome # last'.outcome]_vars

\* C6: overlapping reparenting requests can leave a cycle, and only they
\* can: a store with a cycle is reached (C6_Witness), and in stores this
\* small every cycle comes from a request that wrote its parent after
\* another request had written since it began.
C6_CycleOnlyByOverlap == Acyclic(cats) \/ racedWrite

\* C6 witness: two requests on different categories have each been
\* validated before either wrote, both have written, and the parent
\* relation has a cycle.
C6_Witness ==
  /\ \A p \in Procs :
       proc[p].pc = "done" /\ proc[p].outcome = "ok" /\ proc[p].clean
  /\ proc[1].id # proc[2].id
  /\ proc[1].parent # Null /\ proc[2].parent # Null
  /\ ~Acyclic(cats)

\* Every parent id refers to a stored category.
NoOrphans(store) ==
  \A c \in DOMAIN store : store[c].parent # Null => Stored(store, store[c].parent)

\* C13: overlapping deleteCategory(P) and createCategory(parent = P) can
\* leave a category whose parent is not stored, and only they can: such a
\* store is reached (C13_Witness), and every such store comes from a request
\* that wrote after another request had written since it began.
C13_OrphanOnlyByOverlap == NoOrphans(cats) \/ racedWrite

\* C13 witness: the parent-existence check of a createCategory and the
\* subcategory count of a deleteCategory of that parent both ran before
\* either request wrote, both requests succeeded, and the stored child's
\* parent is not stored.
C13_Witness ==
  \E p \in Procs : \E q \in Procs :
    /\ proc[p].op = "createCategory" /\ proc[p].pc = "done"
    /\ proc[p].outcome = "ok" /\ proc[p].clean
    /\ proc[q].op = "deleteCategory" /\ proc[q].pc = "done"
    /\ proc[q].outcome = "ok" /\ proc[q].clean
    /\ proc[p].parent = proc[q].id
    /\ Stored(cats, proc[p].id) /\ cats[proc[p].id].parent = proc[q].id
    /\ ~Stored(cats, proc[q].id)

\* C10 (as claimed): the derived identifier consists of lower-case
\* letters, digits and hyphens only, has no two hyphens in a row and neither
\* begins nor ends with a hyphen.
C10_WellFormedSlug ==
  derived.done =>
    LET s == derived.slug
    IN /\ \A i \in 1..Len(s) : s[i] \in LowerLetters \cup Digits \cup {Hyphen}
       /\ \A i \in 1..(Len(s) - 1) : ~(s[i] = Hyphen /\ s[i + 1] = Hyphen)
       /\ s # <<>> => (s[1] # Hyphen /\ s[Len(s)] # Hyphen)

----------------------------------------------------------------------------
(* Claims on post slugs *)

PostSlugs == {posts[i].slug : i \in DOMAIN posts}

DecimalDigit(k) == <<"1", "2", "3", "4", "5", "6", "7", "8", "9">>[k]

\* candidate-k
Suffixed(candidate, k) == candidate \o <<Hyphen, DecimalDigit(k)>>

\* The candidate when it is not taken, else candidate-k for the least k >= 1
\* with candidate-k not taken.
FirstFree(candidate, taken) ==
  IF candidate \notin taken THEN candidate
  ELSE LET free == {k \in 1..(Cardinality(taken) + 1) : Suffixed(candidate, k) \notin taken}
       IN Suffixed(candidate, CHOOSE k \in free : \A j \in free : k <= j)

\* C8 (as claimed): a createPost without an explicit slug that overlaps
\* with no other request always succeeds and stores the first free one of
\* candidate, candidate-1, candidate-2, ... where candidate is the slug
\* derived from the title.
C8_FirstFreeSlug ==
  [][\A p \in Procs :
       (/\ pst[p].pc = "insert" /\ ~pst[p].hasSlug /\ ~pst[p].overlapped
        /\ pst'[p].pc = "idle")
       => /\ pst'[p].outcome = "ok"
          /\ Stored(posts', pst'[p].id)
          /\ posts'[pst'[p].id].slug
               = FirstFree(StringSetter(DeriveSlug(pst[p].doc.title)), PostSlugs)]_vars

\* C9: no two stored posts have the same slug.
C9_UniqueSlugs ==
  \A i \in DOMAIN posts : \A j \in DOMAIN posts :
    i # j => posts[i].slug # posts[j].slug

\* C9 witness: of two overlapping createPost requests with the same derived
\* slug one has stored its post and the other was refused by the index.
C9_Witness ==
  /\ \E p \in Procs :
       /\ pst[p].op = "createPost" /\ pst[p].outcome = "DuplicateKey"
       /\ pst[p].overlapped /\ ~pst[p].hasSlug
  /\ \E q \in Procs :
       /\ pst[q].op = "createPost" /\ pst[q].outcome = "ok" /\ ~pst[q].hasSlug
       /\ Stored(posts, pst[q].id)
       /\ posts[pst[q].id].title = HelloWorld

----------------------------------------------------------------------------
(* Claims on category names and slugs *)

\* An active category other than `except` has the name or the slug.
SharesNameOrSlug(store, name, slug, except) ==
  \E c \in DOMAIN store \ {except} :
    store[c].isActive /\ (store[c].name = name \/ store[c].slug = slug)

NoSharedNames ==
  \A c \in DOMAIN cats : \A d \in DOMAIN cats :
    (c # d /\ cats[c].isActive /\ cats[d].isActive)
    => (cats[c].name # cats[d].name /\ cats[c].slug # cats[d].slug)

\* C14 (as claimed): a createCategory with the name or slug of an active
\* category, and an updateCategory that sets the name or slug of any stored
\* category to that of another active category, fail with ConflictError and
\* leave the store as it was; no two active categories share a name or slug.
C14_ConflictsFail ==
  /\ []NoSharedNames
  /\ [][(\/ /\ last'.op = "createCategory"
             /\ SharesNameOrSlug(cats, last'.name, last'.slug, Null)
          \/ /\ last'.op = "updateCategory"
             /\ Stored(cats, last'.id)
             /\ SharesNameOrSlug(cats, last'.name, last'.slug, last'.id))
         => (last'.outcome = "ConflictError" /\ cats' = cats)]_vars

\* C14 (amended): as C14, for an updateCategory on an active category; on
\* a deactivated category the request fails as not found, store unchanged.
C14_ActiveConflictsFail ==
  /\ []NoSharedNames
  /\ [][(\/ /\ last'.op = "createCategory"
             /\ SharesNameOrSlug(cats, last'.name, last'.slug, Null)
          \/ /\ last'.op = "updateCategory"
             /\ Stored(cats, last'.id)
             /\ SharesNameOrSlug(cats, last'.name, last'.slug, last'.id))
         => /\ cats' = cats
            /\ last'.outcome =
                 IF last'.op = "updateCategory" /\ ~cats[last'.id].isActive
                 THEN "NotFoundError" ELSE "ConflictError"]_vars

\* C14 witness: the renaming of an active category to the name of another
\* active category has failed with ConflictError.
C14_Witness ==
  /\ last.op = "updateCategory" /\ last.outcome = "ConflictError"
  /\ Stored(cats, last.id) /\ cats[last.id].isActive
  /\ last.name # Absent /\ cats[last.id].name # last.name
  /\ \E c \in DOMAIN cats \ {last.id} : cats[c].isActive /\ cats[c].name = last.name

----------------------------------------------------------------------------
(* Claims on post creation *)

\* C11 (as claimed): a createPost whose title derives the empty slug fails
\* with an error, and no stored post has an empty slug.
C11_EmptySlugRejected ==
  /\ \A i \in DOMAIN posts : posts[i].slug # <<>>
  /\ \A p \in Procs :
       (/\ pst[p].op = "createPost" /\ pst[p].pc = "idle"
        /\ StringSetter(DeriveSlug(Trim(text))) = <<>>)
       => pst[p].outcome # "ok"

----------------------------------------------------------------------------
(* Claims on status and version of posts *)

\* C15: every stored post has a publishedAt date if and only if its
\* status is published.
C15_PublishedIffDate ==
  \A i \in DOMAIN posts : posts[i].published <=> (posts[i].status = "published")

\* C15 witness: an updatePost has moved a published post to draft and
\* cleared the date; the copy another request loaded before that write
\* still shows the post as published.
C15_Witness ==
  \E p \in Procs : \E q \in Procs :
    /\ pst[p].op = "updatePost" /\ pst[p].pc = "idle" /\ pst[p].outcome = "ok"
    /\ pst[q].pc = "write" /\ pst[q].id = pst[p].id
    /\ pst[q].orig.status = "published" /\ pst[q].orig.published
    /\ posts[pst[p].id].status = "draft" /\ ~posts[pst[p].id].published
    /\ posts[pst[p].id].version = pst[q].orig.version + 1

\* C16 (as claimed): a post is created with version 1, and every
\* successful updatePost or updatePostCategory leaves the stored version one
\* above the version stored before its write, overlapping or not.
C16_VersionCountsUpdates ==
  [][\A p \in Procs :
       /\ (pst[p].pc = "insert" /\ pst'[p].outcome = "ok" /\ pst'[p].pc = "idle")
            => posts'[pst'[p].id].version = 1
       /\ (/\ pst[p].pc = "write"
           /\ pst[p].op \in {"updatePost", "updatePostCategory"}
           /\ pst'[p].pc = "idle" /\ pst'[p].outcome = "ok")
            => posts'[pst[p].id].version = posts[pst[p].id].version + 1]_vars

----------------------------------------------------------------------------
(* Claims on posts and their categories *)

\* The posts that are not deleted and have the category in their categories.
Referencing(id) ==
  {i \in DOMAIN posts :
     ~IsDeleted(posts[i]) /\ \E k \in 1..Len(posts[i].categories) : posts[i].categories[k] = id}

Children(store, id) == {c \in DOMAIN store : store[c].parent = id}

\* C12 (as claimed): deleteCategory(id) on a stored category removes it
\* if and only if no post that is not deleted has id in its categories and
\* no category has id as parent; otherwise it leaves the store as it was and
\* reports posts or subcategories as the blocking kind, with their number.
C12_GuardedDelete ==
  [][(/\ last'.op = "deleteCategory"
      /\ (last' # last \/ cats' # cats)
      /\ Stored(cats, last'.id))
     => LET id == last'.id
            np == Cardinality(Referencing(id))
            nc == Cardinality(Children(cats, id))
        IN IF np = 0 /\ nc = 0
           THEN ~Stored(cats', id) /\ last'.outcome = "ok"
           ELSE /\ cats' = cats
                /\ \/ np > 0 /\ last'.outcome = "HasPosts" /\ last'.count = np
                   \/ nc > 0 /\ last'.outcome = "HasSubcategories"
                             /\ last'.count = nc]_vars

\* Every id of the list is the id of a stored, active category.
AllActive(list) ==
  \A k \in 1..Len(list) : Stored(cats, list[k]) /\ cats[list[k]].isActive

\* C17 (as claimed): every category id in the categories of a stored
\* post that is not deleted is the id of a stored, active category.
C17_PostCategoriesActive ==
  \A i \in DOMAIN posts : ~IsDeleted(posts[i]) => AllActive(posts[i].categories)

\* C18 (as claimed): createPost and updatePost with a non-empty list of
\* category ids pass their category check if and only if every id of the
\* list, listed once or more often, is the id of a stored active category;
\* otherwise they fail with a ValidationError and write nothing.
C18_CategoryListChecked ==
  [][\A p \in Procs :
       /\ (/\ pst[p].pc = "idle" /\ pst'[p] # pst[p]
           /\ pst'[p].op = "createPost" /\ pst'[p].list # <<>>)
          => IF AllActive(pst'[p].list)
             THEN pst'[p].pc = "insert"
             ELSE /\ pst'[p].pc = "idle" /\ pst'[p].outcome = "ValidationError"
                  /\ posts' = posts
       /\ (/\ pst[p].pc = "check" /\ pst'[p].pc # "check"
           /\ pst[p].op = "updatePost" /\ pst[p].list # <<>>)
          => IF AllActive(pst[p].list)
             THEN pst'[p].pc = "write"
             ELSE /\ pst'[p].pc = "idle" /\ pst'[p].outcome = "ValidationError"
                  /\ posts' = posts]_vars

\* C19 (as claimed): deletePost(p) on a stored post that is not deleted
\* succeeds and leaves p stored with its marker set; on a deleted or unknown
\* post it fails with NotFoundError.
C19_SoftDelete ==
  [][\A p \in Procs :
       (pst[p].pc = "idle" /\ pst'[p] # pst[p] /\ pst'[p].op = "deletePost")
       => LET id == pst'[p].id
          IN IF Stored(posts, id) /\ ~IsDeleted(posts[id])
             THEN /\ pst'[p].outcome = "ok"
                  /\ Stored(posts', id) /\ IsDeleted(posts'[id])
             ELSE pst'[p].outcome = "NotFoundError"]_vars

----------------------------------------------------------------------------
(* Claims on the loaders *)

\* C20: the load calls of one phase are served by exactly one fetch, and the
\* key list of that fetch names every requested category id once.  (A key
\* the cache answers is not requested from storage; the requested ids are
\* those of the batch.)
C20_OneFetchDeduplicated ==
  [][loader'.fetches # loader.fetches /\ loader'.fetches # 0 =>
       /\ loader'.fetches = loader.fetches + 1
       /\ loader.batch = <<>> => loader'.fetches = loader.fetches
       /\ {loader'.fetched[k] : k \in 1..Len(loader'.fetched)} =
            {loader.objs[loader.asked[k]] : k \in
               {j \in 1..Len(loader.asked) :
                  \E b \in 1..Len(loader.batch) :
                    loader.batch[b] = loader.asked[j]}}
       /\ \A i, j \in 1..Len(loader'.fetched) :
            loader'.fetched[i] = loader'.fetched[j] => i = j]_vars

\* The active categories of a store whose parent is the given id.
ActiveChildren(store, id) ==
  {c \in DOMAIN store : store[c].isActive /\ store[c].parent = id}

\* The values of a batch of the tags or of the subcategories loader are
\* those of its keys, place by place.
TagsAndSubcategoriesByKey ==
  /\ Len(loader.values) = Len(loader.fetched)
  /\ loader.name = "tags" =>
       \A k \in 1..Len(loader.fetched) :
         loader.values[k] =
           IF loader.fetched[k] \in tags THEN loader.fetched[k] ELSE Null
  /\ loader.name = "subcategories" =>
       \A k \in 1..Len(loader.fetched) :
         LET list == loader.values[k] IN
         /\ {list[i] : i \in 1..Len(list)} =
              ActiveChildren(cats, loader.fetched[k])
         /\ \A i, j \in 1..Len(list) : list[i] = list[j] => i = j

Batching == {loader.batch[k] : k \in 1..Len(loader.batch)}

\* What storage now holds for the key object r: the active category of its
\* id, or null.
StoredFor(r) ==
  IF loader.objs[r] \in DOMAIN cats /\ cats[loader.objs[r]].isActive
  THEN loader.objs[r] ELSE Null

\* C22: each request gets loaders of its own.  Before the first fetch of a
\* request its loader holds no value; every cached object is one the
\* request itself batched; a new request starts from an empty cache; and
\* every fetch answers with what storage holds at that moment, so that
\* what a request reads first is never a value of an earlier request.
C22_FreshLoaders ==
  /\ [](/\ loader.cache = Batching \cup DOMAIN loader.got
        /\ loader.fetches = 0 => DOMAIN loader.got = {})
  /\ [][(loader'.request # loader.request =>
            /\ loader'.cache = {}
            /\ loader'.batch = <<>>
            /\ DOMAIN loader'.got = {})
         /\
         (loader'.fetches = loader.fetches + 1 =>
            \A r \in Batching : loader'.got[r] = StoredFor(r))]_vars

\* C22 witness: the second request has read null for a category that is
\* stored and was deactivated by the last write.
C22_Witness ==
  /\ loader.request = 2
  /\ last.op = "updateCategory" /\ last.outcome = "ok"
  /\ \E r \in DOMAIN loader.got :
       /\ loader.objs[r] = last.id
       /\ loader.objs[r] \in DOMAIN cats
       /\ ~cats[loader.objs[r]].isActive
       /\ loader.got[r] = Null

----------------------------------------------------------------------------
(* Claims on listings *)

\* C23: the compiled predicate always requires isDeleted = false, whatever
\* the filter carries, and the empty filter matches exactly the posts that
\* are not deleted.
C23_DeletedExcluded ==
  listing.op = "filteredPosts" =>
    /\ listing.query.isDeleted = "false"
    /\ listing.filter = NoFilter =>
         listing.matched = {id \in DOMAIN posts : ~IsDeleted(posts[id])}

\* The tags a stored post refers to: PostSchema has no tags path.
TagsOf(doc) == {}

\* The search text asks for nothing.
BlankSearch(searchText) ==
  searchText = AbsentText \/ Trim(searchText) = <<>>

\* The post satisfies the clause of every field the filter carries.
SatisfiesAll(doc, filter) ==
  /\ BlankSearch(filter.searchText)
       \/ Matches(doc, [buildFilterQuery(NoFilter) EXCEPT
                          !.isDeleted = "absent",
                          !.search = buildSearchQuery(filter.searchText)])
  /\ filter.status = "absent" \/ doc.status = filter.status
  /\ filter.categoryId = Absent \/ filter.categoryId \in SeqRange(doc.categories)
  /\ filter.tagIds = AbsentList \/ filter.tagIds = <<>>
       \/ SeqRange(filter.tagIds) \cap TagsOf(doc) # {}
  /\ filter.publishedAfter = Absent
       \/ (doc.publishedAt # Null /\ doc.publishedAt >= filter.publishedAfter)
  /\ filter.publishedBefore = Absent
       \/ (doc.publishedAt # Null /\ doc.publishedAt <= filter.publishedBefore)
  /\ filter.authorId = Absent \/ doc.author = filter.authorId

\* C24: the compiled predicate is the conjunction of the clauses of the
\* fields the filter carries and nothing else: a post that is not deleted
\* matches iff it satisfies every one of them.
C24_ConjunctionOfClauses ==
  listing.op = "filteredPosts" =>
    listing.matched =
      {id \in DOMAIN posts :
         ~IsDeleted(posts[id]) /\ SatisfiesAll(posts[id], listing.filter)}

\* The posts that are not deleted, are published and list the category.
PublishedIn(id) ==
  {q \in DOMAIN posts :
     /\ ~IsDeleted(posts[q])
     /\ posts[q].status = "published"
     /\ id \in SeqRange(posts[q].categories)}

\* C25: the batched postCount loader answers each id with the number of
\* published posts, not deleted, whose categories hold the id, and that is
\* the number the categories query counted for the id.
C25_BatchedCountIsCount ==
  (loader.name = "categoryPostCounts" /\ loader.fetches = 1) =>
    \A k \in 1..Len(loader.fetched) :
      LET id == loader.fetched[k] IN
      /\ loader.values[k] = Cardinality(PublishedIn(id))
      /\ (listing.op = "categories" /\ id \in listing.counted) =>
           loader.values[k] = listing.postCounts[id]

----------------------------------------------------------------------------
(* Claims on the termination of the ancestor walk *)

\* C26: over every store, one with a cycle that does not pass through the
\* target or with a parent that is not stored included, the validator that
\* has started ends: it accepts (the save goes on to its write) or it
\* rejects (the request is done with an error), after at most MaxDepth hops.
C26_WalkTerminates ==
  /\ [](proc[1].depth <= MaxDepth)
  /\ (proc[1].pc \in {"find", "walk"}) ~> (proc[1].pc \in {"write", "done"})
  /\ [](proc[1].pc = "done" =>
          proc[1].outcome \in {"ok", "NotFoundError", "InvalidParentOrCircular",
                               "TypeError"})

\* C26 witness: a walk that went round a cycle for MaxDepth hops and then
\* accepted.
C26_Witness ==
  /\ proc[1].pc = "write"
  /\ proc[1].depth = MaxDepth
  /\ proc[1].cur # Null

----------------------------------------------------------------------------
(* Claims on the view count *)

\* C27: every successful post(id) query raises the stored view count of the
\* post by exactly one and leaves its version as it is, however the queries
\* interleave; so k successful queries raise it by k.
C27_EveryViewCounts ==
  [][\A p \in Procs :
       (/\ pst[p].pc = "write" /\ pst[p].op = "post"
        /\ pst'[p].pc = "idle" /\ pst'[p].outcome = "ok") =>
         /\ posts'[pst[p].id].viewCount = posts[pst[p].id].viewCount + 1
         /\ posts'[pst[p].id].version = posts[pst[p].id].version]_vars

\* C30: whatever integers page and limit are, paginate returns a page of at
\* least 1, a limit from 1 to MaxLimit and a skip of (page - 1) * limit that
\* is not negative; and the pagination info of a listing has hasNext iff
\* page * limit < total and hasPrev iff page > 1.
C30_PaginationInRange ==
  listing.op \in {"posts", "filteredPosts"} =>
    /\ listing.page >= 1
    /\ listing.limit >= 1 /\ listing.limit <= MaxLimit
    /\ listing.skip = (listing.page - 1) * listing.limit
    /\ listing.skip >= 0
    /\ listing.outcome = "ok" =>
         /\ listing.hasNext <=> (listing.page * listing.limit < listing.total)
         /\ listing.hasPrev <=> (listing.page > 1)

----------------------------------------------------------------------------
(* Claims on the database connection *)

\* C28: a connect() call returns true with isConnected set and
\* connectionAttempts back at 0, and it ends in failure only after maxRetries
\* failed attempts made within that call, with isConnected false.
C28_FailsAfterMaxRetries ==
  [][\A c \in 1..Len(db.calls) :
       /\ (db.calls[c].outcome = "pending" /\ db'.calls[c].outcome = "true")
            => (db'.isConnected /\ db'.connectionAttempts = 0)
       /\ (db.calls[c].outcome = "pending"
            /\ db'.calls[c].outcome \in {"error", "exit"}
            /\ db.calls[c].pc = "connecting")
            => (db'.calls[c].made >= maxRetries /\ ~db'.isConnected)]_vars

\* The reconnect loops that healthCheck started and that have not ended.
ReconnectsInFlight ==
  {c \in 1..Len(db.calls) :
     db.calls[c].from = "healthCheck" /\ db.calls[c].pc # "done"}

\* C29: at most one health-check interval timer is active and at most one
\* reconnect loop started by healthCheck is in flight.
C29_OneTimerOneReconnect ==
  /\ Cardinality(db.timers) <= 1
  /\ Cardinality(ReconnectsInFlight) <= 1

====
